---- MODULE Spec2Model ----
(***************************************************************************)
(* A model of the macro tracker: the LLM response validator (lib/llm.ts),  *)
(* the range aggregation (lib/aggregation.ts) and the entry routes          *)
(* (app/api/entries).                                                       *)
(*                                                                          *)
(* JavaScript values are tagged records; the text returned by the LLM is a  *)
(* sequence of top-level JSON tokens whose member values are already-read   *)
(* JavaScript values.                                                       *)
(***************************************************************************)
EXTENDS Integers, Sequences, FiniteSets, TLC

VARIABLES
    llmResponse,   \* the SDK's answer handed to parseFoodWithLLM
    emitted,       \* ghost: what the LLM produced (shape of the text, items array)
    parseResult,   \* what parseFoodWithLLM returned or threw
    vpc,           \* validator run: "ready" | "done" | "idle"
    aggInput,      \* the list handed to an aggregation function
    aggResult,     \* the function called and what it returned
    entries,       \* table entries: rows [id, user_id, raw_text, timestamp]
    entry_items,   \* table entry_items: rows [id, entry_id, name, ..., confidence]
    nextEntryId,   \* the id the next inserted entry gets
    nextItemId,    \* the id the next inserted item gets
    httpResponse,  \* the response of the last request to an entry route
    tz,            \* hours the server's local time is ahead of UTC
    wallClock,     \* the instant new Date() gives in the dashboard routes
    dashResponse,  \* the response of the last request to a dashboard route
    logPage,       \* the state of the log page (its useState cells)
    requests,      \* the deleteItem requests being served, each with its position
    heap,          \* the objects allocated, by address
    calls          \* the calls of aggregation functions made on the heap

validatorVars == <<llmResponse, emitted, parseResult, vpc>>
aggVars == <<aggInput, aggResult>>
dbVars == <<entries, entry_items, nextEntryId, nextItemId, httpResponse>>
dashVars == <<tz, wallClock, dashResponse>>
pageVars == <<logPage>>
raceVars == <<requests>>
heapVars == <<heap, calls>>
otherVars == <<pageVars, raceVars, heapVars>>
vars == <<validatorVars, aggVars, dbVars, dashVars, otherVars>>

----------------------------------------------------------------------------
(* Bounds *)

MaxItems == 2      \* longest items array the LLM emits
MaxAggLen == 3     \* longest list handed to an aggregation function
MaxEntries == 1    \* entries created in a run
MaxItemRows == 2   \* item rows inserted before updates stop
MaxGroups == 2     \* sub-lists a list is partitioned into
MaxShuffled == 3   \* longest select result whose every order is tried
MaxDiary == 2      \* entries of a diary picked one by one

----------------------------------------------------------------------------
(* JavaScript values *)

JUndefined == [t |-> "undefined"]
JNull == [t |-> "null"]
Num(n) == [t |-> "number", n |-> n]
Str(s) == [t |-> "string", s |-> s]
Obj(f) == [t |-> "object", f |-> f]
Arr(e) == [t |-> "array", e |-> e]

EmptyFields == [k \in {} |-> JNull]

\* typeof v
TypeOf(v) ==
    IF v.t \in {"null", "object", "array"} THEN "object" ELSE v.t

\* !v
Falsy(v) ==
    \/ v.t \in {"undefined", "null"}
    \/ v.t = "number" /\ v.n = 0
    \/ v.t = "string" /\ v.s = ""

\* v[key] for a non-null, non-undefined v
Get(v, key) ==
    IF v.t = "object" /\ key \in DOMAIN v.f THEN v.f[key] ELSE JUndefined

\* obj with obj[key] = val (a later member of the same key overrides)
SetField(f, key, val) ==
    [k \in DOMAIN f \cup {key} |-> IF k = key THEN val ELSE f[k]]

----------------------------------------------------------------------------
(* JSON text: tokens of the top-level object *)

LBRACE == [k |-> "lbrace"]
RBRACE == [k |-> "rbrace"]
COLON == [k |-> "colon"]
COMMA == [k |-> "comma"]
WORD == [k |-> "word"]                \* prose that is no JSON token
KEY(s) == [k |-> "key", s |-> s]
VAL(v) == [k |-> "val", v |-> v]      \* the text of one complete JSON value

SyntaxError == [ok |-> FALSE, value |-> JUndefined]

RECURSIVE ParseMembers(_, _, _)
ParseMembers(toks, i, acc) ==
    IF i + 3 > Len(toks) THEN SyntaxError
    ELSE IF toks[i].k # "key" \/ toks[i+1].k # "colon" \/ toks[i+2].k # "val"
         THEN SyntaxError
    ELSE LET acc2 == SetField(acc, toks[i].s, toks[i+2].v) IN
         IF toks[i+3].k = "rbrace"
         THEN IF i + 3 = Len(toks) THEN [ok |-> TRUE, value |-> Obj(acc2)]
              ELSE SyntaxError
         ELSE IF toks[i+3].k = "comma" THEN ParseMembers(toks, i + 4, acc2)
         ELSE SyntaxError

\* JSON.parse(text): a value, or a SyntaxError
JSONparse(toks) ==
    IF Len(toks) = 1 /\ toks[1].k = "val" THEN [ok |-> TRUE, value |-> toks[1].v]
    ELSE IF Len(toks) >= 2 /\ toks[1].k = "lbrace"
         THEN IF toks[2].k = "rbrace"
              THEN IF Len(toks) = 2 THEN [ok |-> TRUE, value |-> Obj(EmptyFields)]
                   ELSE SyntaxError
              ELSE ParseMembers(toks, 2, EmptyFields)
    ELSE SyntaxError

\* the number JSON.parse gives for a literal beyond the range of a double,
\* such as 1e999
Infinity == [t |-> "number", inf |-> TRUE]

\* the value denoted by the text JSON.stringify writes for v inside an object
\* or an array: a number that is not finite is written null, an undefined
\* array element is written null, an undefined member is left out
RECURSIVE Serialised(_)
Serialised(v) ==
    CASE v = Infinity -> JNull
      [] v.t = "undefined" -> JNull
      [] v.t = "array" -> Arr([k \in DOMAIN v.e |-> Serialised(v.e[k])])
      [] v.t = "object" ->
            Obj([k \in {m \in DOMAIN v.f : v.f[m].t # "undefined"} |-> Serialised(v.f[k])])
      [] OTHER -> v

RECURSIVE MemberTokens(_, _)
MemberTokens(f, keys) ==
    IF keys = {} THEN <<>>
    ELSE LET k == CHOOSE k \in keys : TRUE
             rest == keys \ {k}
         IN <<KEY(k), COLON, VAL(Serialised(f[k]))>>
                \o (IF rest = {} THEN <<>> ELSE <<COMMA>> \o MemberTokens(f, rest))

\* JSON.stringify(v): the tokens of the text
JSONstringify(v) ==
    IF v.t = "object"
    THEN <<LBRACE>>
            \o MemberTokens(v.f, {m \in DOMAIN v.f : v.f[m].t # "undefined"})
            \o <<RBRACE>>
    ELSE <<VAL(Serialised(v))>>

----------------------------------------------------------------------------
(* lib/llm.ts *)

rangeFields == <<"calories", "protein", "carbs", "fat", "fiber">>
confidenceLevels == <<"low", "medium", "high">>

\* Array.prototype.includes
Includes(arr, v) == \E k \in DOMAIN arr : Str(arr[k]) = v

\* RangeFieldOk forgetting the check of range.mid
RangeFieldOk_NoMid(i, field) ==
    LET range == Get(i, field) IN
    IF Falsy(range) \/ TypeOf(range) # "object" THEN FALSE
    ELSE IF \/ TypeOf(Get(range, "min")) # "number"
            \/ TypeOf(Get(range, "max")) # "number"
         THEN FALSE
    ELSE TRUE

\* one turn of the loop over rangeFields: TRUE when the field passes
RangeFieldOk(i, field) ==
    LET range == Get(i, field) IN
    IF Falsy(range) \/ TypeOf(range) # "object" THEN FALSE
    ELSE IF \/ TypeOf(Get(range, "min")) # "number"
            \/ TypeOf(Get(range, "mid")) # "number"
            \/ TypeOf(Get(range, "max")) # "number"
         THEN FALSE
    ELSE TRUE

isValidParsedItem(item) ==
    IF TypeOf(item) # "object" \/ item = JNull THEN FALSE
    ELSE IF TypeOf(Get(item, "name")) # "string" THEN FALSE
    ELSE IF ~Includes(confidenceLevels, Get(item, "confidence")) THEN FALSE
    ELSE \A k \in DOMAIN rangeFields : RangeFieldOk(item, rangeFields[k])

ErrApi == "API request failed"
ErrType == "Unexpected response type from LLM"
ErrJson == "Failed to parse LLM response as JSON"
ErrNotObject == "LLM response is not an object"
ErrNoItems == "LLM response missing items array"
ErrBadItem == "LLM response contains invalid item"

Threw(msg) == [ok |-> FALSE, items |-> <<>>, error |-> msg]
Returned(items) == [ok |-> TRUE, items |-> items, error |-> ""]

\* the loop dropping an invalid item (continue) instead of throwing
RECURSIVE ValidateItems_Skip(_, _, _)
ValidateItems_Skip(arr, k, items) ==
    IF k > Len(arr) THEN Returned(items)
    ELSE IF ~isValidParsedItem(arr[k]) THEN ValidateItems_Skip(arr, k + 1, items)
    ELSE ValidateItems_Skip(arr, k + 1, Append(items, arr[k]))

\* the loop with items.unshift(item) instead of items.push(item)
RECURSIVE ValidateItems_Unshift(_, _, _)
ValidateItems_Unshift(arr, k, items) ==
    IF k > Len(arr) THEN Returned(items)
    ELSE IF ~isValidParsedItem(arr[k]) THEN Threw(ErrBadItem)
    ELSE ValidateItems_Unshift(arr, k + 1, <<arr[k]>> \o items)

\* the loop over response_.items: push each valid item, throw at the first invalid one
RECURSIVE ValidateItems(_, _, _)
ValidateItems(arr, k, items) ==
    IF k > Len(arr) THEN Returned(items)
    ELSE IF ~isValidParsedItem(arr[k]) THEN Threw(ErrBadItem)
    ELSE ValidateItems(arr, k + 1, Append(items, arr[k]))

\* parseFoodWithLLM parsing content.text without the prefilled "{"
parseFoodWithLLM_NoPrefix(response) ==
    IF response.kind = "throw" THEN Threw(ErrApi)
    ELSE IF response.kind # "text" THEN Threw(ErrType)
    ELSE LET parsed == JSONparse(response.text) IN
         IF ~parsed.ok THEN Threw(ErrJson)
         ELSE IF TypeOf(parsed.value) # "object" \/ parsed.value = JNull
              THEN Threw(ErrNotObject)
         ELSE LET items == Get(parsed.value, "items") IN
              IF items.t # "array" THEN Threw(ErrNoItems)
              ELSE ValidateItems(items.e, 1, <<>>)

parseFoodWithLLM(response) ==
    IF response.kind = "throw" THEN Threw(ErrApi)
    ELSE IF response.kind # "text" THEN Threw(ErrType)
    ELSE LET parsed == JSONparse(<<LBRACE>> \o response.text) IN
         IF ~parsed.ok THEN Threw(ErrJson)
         ELSE IF TypeOf(parsed.value) # "object" \/ parsed.value = JNull
              THEN Threw(ErrNotObject)
         ELSE LET items == Get(parsed.value, "items") IN
              IF items.t # "array" THEN Threw(ErrNoItems)
              ELSE ValidateItems(items.e, 1, <<>>)

----------------------------------------------------------------------------
(* What the LLM can answer *)

Range(lo, mi, hi) == [min |-> lo, mid |-> mi, max |-> hi]

RangeObj(r) == Obj([min |-> Num(r.min), mid |-> Num(r.mid), max |-> Num(r.max)])

ItemObj(name, confidence, cal, pro, carb, fat, fib) ==
    Obj([name |-> Str(name), calories |-> RangeObj(cal), protein |-> RangeObj(pro),
         carbs |-> RangeObj(carb), fat |-> RangeObj(fat), fiber |-> RangeObj(fib),
         confidence |-> Str(confidence)])

ItemEggs ==
    ItemObj("eggs", "medium", Range(140, 155, 180), Range(10, 12, 14),
            Range(0, 1, 2), Range(10, 11, 13), Range(0, 0, 0))
ItemToast ==
    ItemObj("toast with butter", "high", Range(130, 150, 180), Range(3, 4, 5),
            Range(14, 16, 20), Range(6, 8, 10), Range(1, 1, 2))
ItemGuess ==
    ItemObj("some soup", "low", Range(50, 200, 600), Range(0, 8, 30),
            Range(0, 20, 60), Range(0, 6, 25), Range(0, 2, 8))

\* well-typed items whose values are not sane
ItemNoName == Obj(SetField(ItemEggs.f, "name", Str("")))
ItemInverted == Obj(SetField(ItemToast.f, "calories", RangeObj(Range(500, 300, 100))))
ItemNegative == Obj(SetField(ItemEggs.f, "fiber", RangeObj(Range(-2, 0, 1))))
ItemExtraKey == Obj(SetField(ItemToast.f, "notes", Str("buttered")))

Without(f, key) == [k \in DOMAIN f \ {key} |-> f[k]]

WithComponent(item, field, comp, v) ==
    Obj(SetField(item.f, field, Obj(SetField(item.f[field].f, comp, v))))

\* an item with "max":1e999 for its calories
ItemHuge == WithComponent(ItemEggs, "calories", "max", Infinity)

\* elements that are not item records at all
NonObjectItems == {JNull, Num(7), Str("banana"), Arr(<<Str("eggs")>>)}

BadNameItems ==
    {Obj(Without(ItemEggs.f, "name")),
     Obj(SetField(ItemEggs.f, "name", Num(3))),
     Obj(SetField(ItemEggs.f, "name", JNull))}

BadConfidenceItems ==
    {Obj(Without(ItemEggs.f, "confidence")),
     Obj(SetField(ItemEggs.f, "confidence", Str("certain"))),
     Obj(SetField(ItemEggs.f, "confidence", Num(1))),
     Obj(SetField(ItemEggs.f, "confidence", JNull))}

BadRangeItems ==
    {Obj(Without(ItemToast.f, "fat")),
     Obj(SetField(ItemToast.f, "fiber", JNull)),
     Obj(SetField(ItemToast.f, "protein", Num(4))),
     Obj(SetField(ItemToast.f, "carbs", Str("16"))),
     Obj(SetField(ItemToast.f, "calories", Arr(<<Num(130), Num(150), Num(180)>>)))}

BadComponentItems ==
    {WithComponent(ItemEggs, "calories", "mid", Str("155")),
     WithComponent(ItemEggs, "protein", "min", JNull),
     WithComponent(ItemEggs, "fiber", "max", Str("0")),
     Obj(SetField(ItemEggs.f, "fat", Obj(Without(ItemEggs.f["fat"].f, "max"))))}

WellTypedItems ==
    {ItemEggs, ItemToast, ItemGuess, ItemNoName, ItemInverted, ItemNegative, ItemExtraKey,
     ItemHuge}

ItemUniverse ==
    WellTypedItems \cup NonObjectItems \cup BadNameItems \cup BadConfidenceItems
        \cup BadRangeItems \cup BadComponentItems

SeqsUpTo(S, n) == UNION {[1..m -> S] : m \in 0..n}

\* shapes of text that carry an items array
WellFormedShapes == {"object", "extraKey"}
BrokenShapes == {"unstripped", "truncated", "trailing"}
ArrayShapes == WellFormedShapes \cup BrokenShapes
\* shapes of text without one
ProseShapes == {"prose", "empty"}
NoItemsShapes == {"otherKey", "emptyObject", "itemsString", "itemsNull", "itemsObject"}
\* answers that are no text at all
NonTextShapes == {"apiError", "image"}

ItemsMember(arr) == <<KEY("items"), COLON, VAL(Arr(arr))>>

\* the text after the prefilled "{" (the SDK returns only the continuation)
TextOf(shape, arr) ==
    CASE shape = "object" -> ItemsMember(arr) \o <<RBRACE>>
      [] shape = "extraKey" ->
            <<KEY("note"), COLON, VAL(Str("ok")), COMMA>> \o ItemsMember(arr) \o <<RBRACE>>
      [] shape = "unstripped" -> <<LBRACE>> \o ItemsMember(arr) \o <<RBRACE>>
      [] shape = "truncated" -> ItemsMember(arr)
      [] shape = "trailing" -> ItemsMember(arr) \o <<RBRACE, WORD>>
      [] shape = "prose" -> <<WORD, WORD>>
      [] shape = "empty" -> <<>>
      [] shape = "otherKey" -> <<KEY("food"), COLON, VAL(Str("banana")), RBRACE>>
      [] shape = "emptyObject" -> <<RBRACE>>
      [] shape = "itemsString" -> <<KEY("items"), COLON, VAL(Str("none")), RBRACE>>
      [] shape = "itemsNull" -> <<KEY("items"), COLON, VAL(JNull), RBRACE>>
      [] shape = "itemsObject" ->
            <<KEY("items"), COLON, VAL(Obj([length |-> Num(0)])), RBRACE>>
      [] OTHER -> <<>>

\* response.content[0], or the rejection of messages.create
ResponseOf(e) ==
    CASE e.shape = "apiError" -> [kind |-> "throw", text |-> <<>>]
      [] e.shape = "image" -> [kind |-> "image", text |-> <<>>]
      [] OTHER -> [kind |-> "text", text |-> TextOf(e.shape, e.items)]

Emission(shape, arr) == [shape |-> shape, items |-> arr]

Emissions ==
    {Emission(s, arr) : s \in ArrayShapes, arr \in SeqsUpTo(ItemUniverse, MaxItems)}
        \cup {Emission(s, <<>>) : s \in ProseShapes \cup NoItemsShapes \cup NonTextShapes}

NoResponse == [kind |-> "none", text |-> <<>>]
NoEmission == Emission("none", <<>>)
NoResult == [ok |-> FALSE, items |-> <<>>, error |-> "not called"]

----------------------------------------------------------------------------
(* lib/aggregation.ts *)

Confidence == {"low", "medium", "high"}
Nutrients == {"calories", "protein", "carbs", "fat", "fiber"}
Components == {"min", "mid", "max"}

emptyTotals ==
    [calories |-> Range(0, 0, 0), protein |-> Range(0, 0, 0), carbs |-> Range(0, 0, 0),
     fat |-> Range(0, 0, 0), fiber |-> Range(0, 0, 0)]

\* addRanges keeping the larger max instead of adding the two
addRanges_MaxOfMax(a, b) ==
    [min |-> a.min + b.min, mid |-> a.mid + b.mid,
     max |-> IF a.max >= b.max THEN a.max ELSE b.max]

\* addRanges assigning b.mid where it should add it
addRanges_Overwrites(a, b) ==
    [min |-> a.min + b.min, mid |-> b.mid, max |-> a.max + b.max]

addRanges(a, b) ==
    [min |-> a.min + b.min, mid |-> a.mid + b.mid, max |-> a.max + b.max]

\* the reducer with fat summed from the item's carbs (a copied line not renamed)
AddNutrients_CopiedLine(totals, item) ==
    [calories |-> addRanges(totals.calories, item.calories),
     protein |-> addRanges(totals.protein, item.protein),
     carbs |-> addRanges(totals.carbs, item.carbs),
     fat |-> addRanges(totals.fat, item.carbs),
     fiber |-> addRanges(totals.fiber, item.fiber)]

\* the reducer of aggregateItems and of aggregateTotals
AddNutrients(totals, item) ==
    [calories |-> addRanges(totals.calories, item.calories),
     protein |-> addRanges(totals.protein, item.protein),
     carbs |-> addRanges(totals.carbs, item.carbs),
     fat |-> addRanges(totals.fat, item.fat),
     fiber |-> addRanges(totals.fiber, item.fiber)]

\* Array.prototype.reduce(AddNutrients, acc) from index k on
RECURSIVE Reduce(_, _, _)
Reduce(list, k, acc) ==
    IF k > Len(list) THEN acc ELSE Reduce(list, k + 1, AddNutrients(acc, list[k]))

aggregateItems(items) ==
    IF Len(items) = 0 THEN emptyTotals ELSE Reduce(items, 1, emptyTotals)

aggregateTotals(totalsList) ==
    IF Len(totalsList) = 0 THEN emptyTotals ELSE Reduce(totalsList, 1, emptyTotals)

\* aggregateConfidence testing hasMedium before hasLow
aggregateConfidence_MediumFirst(items) ==
    IF Len(items) = 0 THEN "high"
    ELSE LET hasLow == \E k \in DOMAIN items : items[k].confidence = "low"
             hasMedium == \E k \in DOMAIN items : items[k].confidence = "medium"
         IN IF hasMedium THEN "medium" ELSE IF hasLow THEN "low" ELSE "high"

aggregateConfidence(items) ==
    IF Len(items) = 0 THEN "high"
    ELSE LET hasLow == \E k \in DOMAIN items : items[k].confidence = "low"
             hasMedium == \E k \in DOMAIN items : items[k].confidence = "medium"
         IN IF hasLow THEN "low" ELSE IF hasMedium THEN "medium" ELSE "high"

\* validateRange comparing with < where the code has <=
validateRange_Strict(range) ==
    range.min < range.mid /\ range.mid < range.max /\ range.min >= 0

validateRange(range) ==
    range.min <= range.mid /\ range.mid <= range.max /\ range.min >= 0

validateTotals(totals) ==
    /\ validateRange(totals.calories)
    /\ validateRange(totals.protein)
    /\ validateRange(totals.carbs)
    /\ validateRange(totals.fat)
    /\ validateRange(totals.fiber)

\* days.reduce((s, d) => s + d.totals[f][c], 0) from index k on
RECURSIVE ReduceDays(_, _, _, _, _)
ReduceDays(days, k, s, f, c) ==
    IF k > Len(days) THEN s ELSE ReduceDays(days, k + 1, s + days[k].totals[f][c], f, c)

\* Math.floor(sum / n) in place of Math.round(sum / n)
MathRoundOfQuotient_Floor(sum, n) == sum \div n

\* Math.round(sum / n) for integers sum and n > 0: the nearest integer, a tie
\* going to the larger one
MathRoundOfQuotient(sum, n) == (2 * sum + n) \div (2 * n)

\* Math.min(...xs) and Math.max(...xs) of a non-empty list
RECURSIVE MathMin(_, _, _)
MathMin(xs, k, least) ==
    IF k > Len(xs) THEN least
    ELSE MathMin(xs, k + 1, IF xs[k] < least THEN xs[k] ELSE least)

RECURSIVE MathMax(_, _, _)
MathMax(xs, k, most) ==
    IF k > Len(xs) THEN most
    ELSE MathMax(xs, k + 1, IF xs[k] > most THEN xs[k] ELSE most)

\* averages with Math.floor in place of Math.round for mid
AverageOf_FloorsMid(days, f) ==
    LET n == Len(days) IN
    [min |-> MathRoundOfQuotient(ReduceDays(days, 1, 0, f, "min"), n),
     mid |-> ReduceDays(days, 1, 0, f, "mid") \div n,
     max |-> MathRoundOfQuotient(ReduceDays(days, 1, 0, f, "max"), n)]

\* one nutrient of averages
AverageOf(days, f) ==
    LET n == Len(days) IN
    [min |-> MathRoundOfQuotient(ReduceDays(days, 1, 0, f, "min"), n),
     mid |-> MathRoundOfQuotient(ReduceDays(days, 1, 0, f, "mid"), n),
     max |-> MathRoundOfQuotient(ReduceDays(days, 1, 0, f, "max"), n)]

\* one nutrient of daily_ranges, taken from the days' min and max components
DailyRangeOf_OwnBounds(days, f) ==
    [min |-> MathMin([k \in DOMAIN days |-> days[k].totals[f].min], 2,
                     days[1].totals[f].min),
     max |-> MathMax([k \in DOMAIN days |-> days[k].totals[f].max], 2,
                     days[1].totals[f].max)]

\* one nutrient of daily_ranges
DailyRangeOf(days, f) ==
    LET mids == [k \in DOMAIN days |-> days[k].totals[f].mid] IN
    [min |-> MathMin(mids, 2, mids[1]), max |-> MathMax(mids, 2, mids[1])]

emptyDailyRanges ==
    [calories |-> [min |-> 0, max |-> 0], protein |-> [min |-> 0, max |-> 0],
     carbs |-> [min |-> 0, max |-> 0], fat |-> [min |-> 0, max |-> 0],
     fiber |-> [min |-> 0, max |-> 0]]

\* computeWeeklyAverage marking "no days" with -1 in daily_ranges
computeWeeklyAverage_Sentinel(days) ==
    IF Len(days) = 0
    THEN [averages |-> emptyTotals,
          daily_ranges |-> [f \in Nutrients |-> [min |-> -1, max |-> -1]]]
    ELSE [averages |->
              [calories |-> AverageOf(days, "calories"),
               protein |-> AverageOf(days, "protein"),
               carbs |-> AverageOf(days, "carbs"),
               fat |-> AverageOf(days, "fat"),
               fiber |-> AverageOf(days, "fiber")],
          daily_ranges |->
              [calories |-> DailyRangeOf(days, "calories"),
               protein |-> DailyRangeOf(days, "protein"),
               carbs |-> DailyRangeOf(days, "carbs"),
               fat |-> DailyRangeOf(days, "fat"),
               fiber |-> DailyRangeOf(days, "fiber")]]

computeWeeklyAverage(days) ==
    IF Len(days) = 0
    THEN [averages |-> emptyTotals, daily_ranges |-> emptyDailyRanges]
    ELSE [averages |->
              [calories |-> AverageOf(days, "calories"),
               protein |-> AverageOf(days, "protein"),
               carbs |-> AverageOf(days, "carbs"),
               fat |-> AverageOf(days, "fat"),
               fiber |-> AverageOf(days, "fiber")],
          daily_ranges |->
              [calories |-> DailyRangeOf(days, "calories"),
               protein |-> DailyRangeOf(days, "protein"),
               carbs |-> DailyRangeOf(days, "carbs"),
               fat |-> DailyRangeOf(days, "fat"),
               fiber |-> DailyRangeOf(days, "fiber")]]

----------------------------------------------------------------------------
(* The sums written out in the routes and in the log page *)

\* dayItems.reduce((s, i) => s + Number(i[column]), 0) from index k on; the
\* rows hold numbers, of which Number() is the value itself
RECURSIVE ReduceColumn(_, _, _, _)
ReduceColumn(dayItems, k, s, column) ==
    IF k > Len(dayItems) THEN s
    ELSE ReduceColumn(dayItems, k + 1, s + dayItems[k][column], column)

\* the totals of one date in the history and weekly routes
InlineDayTotals(dayItems) ==
    [calories |-> [min |-> ReduceColumn(dayItems, 1, 0, "calories_min"),
                   mid |-> ReduceColumn(dayItems, 1, 0, "calories_mid"),
                   max |-> ReduceColumn(dayItems, 1, 0, "calories_max")],
     protein |-> [min |-> ReduceColumn(dayItems, 1, 0, "protein_min"),
                  mid |-> ReduceColumn(dayItems, 1, 0, "protein_mid"),
                  max |-> ReduceColumn(dayItems, 1, 0, "protein_max")],
     carbs |-> [min |-> ReduceColumn(dayItems, 1, 0, "carbs_min"),
                mid |-> ReduceColumn(dayItems, 1, 0, "carbs_mid"),
                max |-> ReduceColumn(dayItems, 1, 0, "carbs_max")],
     fat |-> [min |-> ReduceColumn(dayItems, 1, 0, "fat_min"),
              mid |-> ReduceColumn(dayItems, 1, 0, "fat_mid"),
              max |-> ReduceColumn(dayItems, 1, 0, "fat_max")],
     fiber |-> [min |-> ReduceColumn(dayItems, 1, 0, "fiber_min"),
                mid |-> ReduceColumn(dayItems, 1, 0, "fiber_mid"),
                max |-> ReduceColumn(dayItems, 1, 0, "fiber_max")]]

\* items.reduce((s, i) => s + i[f][c], 0) from index k on
RECURSIVE ReduceItems(_, _, _, _, _)
ReduceItems(items, k, s, f, c) ==
    IF k > Len(items) THEN s ELSE ReduceItems(items, k + 1, s + items[k][f][c], f, c)

\* aggregateItemTotals with fat.max summed from fat.mid (a copied line not renamed)
aggregateItemTotals_CopiedLine(items) ==
    [f \in Nutrients |->
        [min |-> ReduceItems(items, 1, 0, f, "min"),
         mid |-> ReduceItems(items, 1, 0, f, "mid"),
         max |-> ReduceItems(items, 1, 0, f, IF f = "fat" THEN "mid" ELSE "max")]]

\* aggregateItemTotals of the log page
aggregateItemTotals(items) ==
    [calories |-> [min |-> ReduceItems(items, 1, 0, "calories", "min"),
                   mid |-> ReduceItems(items, 1, 0, "calories", "mid"),
                   max |-> ReduceItems(items, 1, 0, "calories", "max")],
     protein |-> [min |-> ReduceItems(items, 1, 0, "protein", "min"),
                  mid |-> ReduceItems(items, 1, 0, "protein", "mid"),
                  max |-> ReduceItems(items, 1, 0, "protein", "max")],
     carbs |-> [min |-> ReduceItems(items, 1, 0, "carbs", "min"),
                mid |-> ReduceItems(items, 1, 0, "carbs", "mid"),
                max |-> ReduceItems(items, 1, 0, "carbs", "max")],
     fat |-> [min |-> ReduceItems(items, 1, 0, "fat", "min"),
              mid |-> ReduceItems(items, 1, 0, "fat", "mid"),
              max |-> ReduceItems(items, 1, 0, "fat", "max")],
     fiber |-> [min |-> ReduceItems(items, 1, 0, "fiber", "min"),
                mid |-> ReduceItems(items, 1, 0, "fiber", "mid"),
                max |-> ReduceItems(items, 1, 0, "fiber", "max")]]

----------------------------------------------------------------------------
(* Inputs of the aggregation functions *)

\* ranges the items are built from: a zero, a wide one, an inverted one and a
\* negative one
SeedRanges == <<Range(0, 0, 0), Range(1, 2, 4), Range(3, 1, 2), Range(-1, 0, 1)>>

Widen(r) == [min |-> r.min, mid |-> r.mid + 1, max |-> r.max + 2]
Scale(r, n) == [min |-> r.min * n, mid |-> r.mid * n, max |-> r.max * n]

\* an EntryItem whose five ranges all differ
AggItem(i, j) ==
    [name |-> "food", confidence |-> confidenceLevels[((i + j) % 3) + 1],
     calories |-> Scale(SeedRanges[i], 100), protein |-> SeedRanges[j],
     carbs |-> Widen(SeedRanges[j]), fat |-> Widen(SeedRanges[i]),
     fiber |-> Widen(Widen(SeedRanges[j]))]

AggItems == {AggItem(i, j) : i, j \in DOMAIN SeedRanges}

\* the NutritionalTotals with an item's five ranges
TotalsOfItem(item) == [f \in Nutrients |-> item[f]]

NoAggregate == [op |-> "none", totals |-> emptyTotals, confidence |-> "none"]

\* the list as DailySummary records, one per date
DaysOf(list) ==
    [k \in DOMAIN list |-> [date |-> k, totals |-> TotalsOfItem(list[k]), entry_count |-> 1]]

\* the entry_items row holding an item's values
RowOfEntryItem(item) ==
    [entry_id |-> 1, name |-> item.name, confidence |-> item.confidence,
     calories_min |-> item.calories.min, calories_mid |-> item.calories.mid,
     calories_max |-> item.calories.max,
     protein_min |-> item.protein.min, protein_mid |-> item.protein.mid,
     protein_max |-> item.protein.max,
     carbs_min |-> item.carbs.min, carbs_mid |-> item.carbs.mid,
     carbs_max |-> item.carbs.max,
     fat_min |-> item.fat.min, fat_mid |-> item.fat.mid, fat_max |-> item.fat.max,
     fiber_min |-> item.fiber.min, fiber_mid |-> item.fiber.mid,
     fiber_max |-> item.fiber.max]

\* ranges a totals record is probed with, one field at a time
ProbeRanges == {Range(lo, mi, hi) : lo \in {-1, 0, 1}, mi \in {0, 1, 2}, hi \in {0, 1, 2}}

----------------------------------------------------------------------------
(* The entries and entry_items tables, and lib/types.ts *)

Users == {"u1", "u2"}
Instants == {1, 25}
\* the instants new Date() gives while the requests are served
ServerClock == {1}

\* itemsToInsert: one entry_items row (without its id) per parsed item
RowOfParsed(entry_id, item) ==
    [entry_id |-> entry_id,
     name |-> Get(item, "name").s,
     calories_min |-> Get(Get(item, "calories"), "min").n,
     calories_mid |-> Get(Get(item, "calories"), "mid").n,
     calories_max |-> Get(Get(item, "calories"), "max").n,
     protein_min |-> Get(Get(item, "protein"), "min").n,
     protein_mid |-> Get(Get(item, "protein"), "mid").n,
     protein_max |-> Get(Get(item, "protein"), "max").n,
     carbs_min |-> Get(Get(item, "carbs"), "min").n,
     carbs_mid |-> Get(Get(item, "carbs"), "mid").n,
     carbs_max |-> Get(Get(item, "carbs"), "max").n,
     fat_min |-> Get(Get(item, "fat"), "min").n,
     fat_mid |-> Get(Get(item, "fat"), "mid").n,
     fat_max |-> Get(Get(item, "fat"), "max").n,
     fiber_min |-> Get(Get(item, "fiber"), "min").n,
     fiber_mid |-> Get(Get(item, "fiber"), "mid").n,
     fiber_max |-> Get(Get(item, "fiber"), "max").n,
     confidence |-> Get(item, "confidence").s]

\* the rows the insert stores and returns: ids are assigned in order from `first`
InsertedRows(entry_id, items, first) ==
    [k \in DOMAIN items |->
        [id |-> first + k - 1] @@ RowOfParsed(entry_id, items[k])]

dbEntryItemToEntryItem(row) ==
    [id |-> row.id, entry_id |-> row.entry_id, name |-> row.name,
     calories |-> Range(row.calories_min, row.calories_mid, row.calories_max),
     protein |-> Range(row.protein_min, row.protein_mid, row.protein_max),
     carbs |-> Range(row.carbs_min, row.carbs_mid, row.carbs_max),
     fat |-> Range(row.fat_min, row.fat_mid, row.fat_max),
     fiber |-> Range(row.fiber_min, row.fiber_mid, row.fiber_max),
     confidence |-> row.confidence]

\* insertedItems.map(dbEntryItemToEntryItem)
MapToEntryItems(rows) == [k \in DOMAIN rows |-> dbEntryItemToEntryItem(rows[k])]

RowSet(rows) == {rows[k] : k \in DOMAIN rows}

\* String.prototype.trim on the request texts
RawTexts == {"   ", "eggs and toast ", "a bowl of soup"}
Trim(s) ==
    CASE s = "   " -> ""
      [] s = "eggs and toast " -> "eggs and toast"
      [] OTHER -> s

\* request timestamps: absent, not a date, or an instant
NoTimestamp == [given |-> FALSE, valid |-> TRUE, at |-> 0]
BadTimestamp == [given |-> TRUE, valid |-> FALSE, at |-> 0]
At(t) == [given |-> TRUE, valid |-> TRUE, at |-> t]
Timestamps == {NoTimestamp, BadTimestamp} \cup {At(t) : t \in Instants \ ServerClock}

\* what the LLM answers to a request of the routes
ApiEmissions ==
    {Emission("object", <<>>),
     Emission("object", <<ItemEggs>>),
     Emission("object", <<ItemGuess, ItemToast>>),
     Emission("object", <<ItemInverted>>),
     Emission("object", <<ItemEggs, Obj(Without(ItemEggs.f, "confidence"))>>),
     Emission("prose", <<>>),
     Emission("apiError", <<>>)}

\* the database call that fails during a request, if any
CreateFaults ==
    {"none", "entries.insert", "entry_items.insert", "entry_items.insert+rollback"}
UpdateFaults ==
    {"none", "entries.select", "entry_items.delete", "entries.update", "entry_items.insert"}

\* the requests served: around a plain request with a working database, every
\* answer of the LLM, every failing database call, and every text and timestamp
Scenario(raw_text, timestamp, emission, fault) ==
    [raw_text |-> raw_text, timestamp |-> timestamp, emission |-> emission,
     fault |-> fault]

Scenarios(plainText, faults) ==
    {Scenario(plainText, NoTimestamp, e, "none") : e \in ApiEmissions}
        \cup {Scenario(plainText, NoTimestamp, Emission("object", <<ItemEggs>>), f) :
                 f \in faults}
        \cup {Scenario(t, ts, Emission("object", <<ItemEggs>>), "none") :
                 t \in RawTexts, ts \in Timestamps}

Json(status, error, items, totals) ==
    [status |-> status, error |-> error, items |-> items, totals |-> totals]
ErrorJson(status, error) == Json(status, error, <<>>, emptyTotals)
NoHttpResponse == ErrorJson(0, "")

\* the tables after a request, and its response
Outcome(es, its, ne, ni, resp) ==
    [entries |-> es, entry_items |-> its, nextEntryId |-> ne, nextItemId |-> ni,
     response |-> resp]

createEntry(user, raw_text, timestamp, now, response, fault) ==
    LET same(resp) == Outcome(entries, entry_items, nextEntryId, nextItemId, resp)
        parsedFood == parseFoodWithLLM(response)
        entry == [id |-> nextEntryId, user_id |-> user, raw_text |-> Trim(raw_text),
                  timestamp |-> IF timestamp.given THEN timestamp.at ELSE now]
        insertedItems == InsertedRows(entry.id, parsedFood.items, nextItemId)
        items == MapToEntryItems(insertedItems)
    IN
    IF Trim(raw_text) = "" THEN same(ErrorJson(400, "validation_error"))
    ELSE IF timestamp.given /\ ~timestamp.valid THEN same(ErrorJson(500, "internal_error"))
    ELSE IF ~parsedFood.ok THEN same(ErrorJson(502, "llm_error"))
    ELSE IF fault = "entries.insert" THEN same(ErrorJson(500, "internal_error"))
    ELSE IF fault = "entry_items.insert"
         THEN Outcome(entries, entry_items, nextEntryId + 1, nextItemId,
                      ErrorJson(500, "internal_error"))
    ELSE IF fault = "entry_items.insert+rollback"
         THEN Outcome(entries \cup {entry}, entry_items, nextEntryId + 1, nextItemId,
                      ErrorJson(500, "internal_error"))
    ELSE Outcome(entries \cup {entry}, entry_items \cup RowSet(insertedItems),
                 nextEntryId + 1, nextItemId + Len(insertedItems),
                 Json(201, "", items, aggregateItems(items)))

updateEntry(user, id, raw_text, timestamp, response, fault) ==
    LET same(resp) == Outcome(entries, entry_items, nextEntryId, nextItemId, resp)
        owned == {e \in entries : e.id = id /\ e.user_id = user}
        kept == {r \in entry_items : r.entry_id # id}
        parsedFood == parseFoodWithLLM(response)
        old == CHOOSE e \in entries : e.id = id
        entry == [old EXCEPT !.raw_text = Trim(raw_text),
                             !.timestamp = IF timestamp.given THEN timestamp.at ELSE @]
        updated == (entries \ {old}) \cup {entry}
        insertedItems == InsertedRows(id, parsedFood.items, nextItemId)
        items == MapToEntryItems(insertedItems)
    IN
    IF Trim(raw_text) = "" THEN same(ErrorJson(400, "validation_error"))
    ELSE IF fault = "entries.select" \/ owned = {} THEN same(ErrorJson(404, "not_found"))
    ELSE IF fault = "entry_items.delete" THEN same(ErrorJson(500, "internal_error"))
    ELSE IF ~parsedFood.ok
         THEN Outcome(entries, kept, nextEntryId, nextItemId, ErrorJson(502, "llm_error"))
    ELSE IF timestamp.given /\ ~timestamp.valid
         THEN Outcome(entries, kept, nextEntryId, nextItemId,
                      ErrorJson(500, "internal_error"))
    ELSE IF fault = "entries.update"
         THEN Outcome(entries, kept, nextEntryId, nextItemId,
                      ErrorJson(500, "internal_error"))
    ELSE IF fault = "entry_items.insert"
         THEN Outcome(updated, kept, nextEntryId, nextItemId,
                      ErrorJson(500, "internal_error"))
    ELSE Outcome(updated, kept \cup RowSet(insertedItems),
                 nextEntryId, nextItemId + Len(insertedItems),
                 Json(200, "", items, aggregateItems(items)))

\* deleteEntry with the ownership select lacking .eq('user_id', user.id)
deleteEntry_AnyOwner(user, id, fault) ==
    LET same(resp) == Outcome(entries, entry_items, nextEntryId, nextItemId, resp)
        owned == {e \in entries : e.id = id}
    IN
    IF fault = "entries.select" \/ owned = {} THEN same(ErrorJson(404, "not_found"))
    ELSE IF fault = "entries.delete" THEN same(ErrorJson(500, "internal_error"))
    ELSE Outcome({e \in entries : e.id # id}, {r \in entry_items : r.entry_id # id},
                 nextEntryId, nextItemId, Json(204, "", <<>>, emptyTotals))

\* DELETE /api/entries/:id; the foreign key deletes the entry's items with it
deleteEntry(user, id, fault) ==
    LET same(resp) == Outcome(entries, entry_items, nextEntryId, nextItemId, resp)
        owned == {e \in entries : e.id = id /\ e.user_id = user}
    IN
    IF fault = "entries.select" \/ owned = {} THEN same(ErrorJson(404, "not_found"))
    ELSE IF fault = "entries.delete" THEN same(ErrorJson(500, "internal_error"))
    ELSE Outcome({e \in entries : e.id # id}, {r \in entry_items : r.entry_id # id},
                 nextEntryId, nextItemId, Json(204, "", <<>>, emptyTotals))

\* DELETE /api/entries/:id/items/:itemId
deleteItem(user, entryId, itemId, fault) ==
    LET same(resp) == Outcome(entries, entry_items, nextEntryId, nextItemId, resp)
        owned == {e \in entries : e.id = entryId /\ e.user_id = user}
        item == {r \in entry_items : r.id = itemId /\ r.entry_id = entryId}
        count == Cardinality({r \in entry_items : r.entry_id = entryId})
    IN
    IF fault = "entries.select" \/ owned = {} THEN same(ErrorJson(404, "not_found"))
    ELSE IF fault = "entry_items.select" \/ item = {}
         THEN same(ErrorJson(404, "not_found"))
    ELSE IF fault # "entry_items.count" /\ count <= 1
         THEN IF fault = "entries.delete" THEN same(ErrorJson(500, "internal_error"))
              ELSE Outcome({e \in entries : e.id # entryId},
                           {r \in entry_items : r.entry_id # entryId},
                           nextEntryId, nextItemId, Json(204, "", <<>>, emptyTotals))
    ELSE IF fault = "entry_items.delete" THEN same(ErrorJson(500, "internal_error"))
    ELSE Outcome(entries, {r \in entry_items : r.id # itemId},
                 nextEntryId, nextItemId, Json(204, "", <<>>, emptyTotals))

DeleteFaults == {"none", "entries.select", "entries.delete"}
DeleteItemFaults ==
    {"none", "entries.select", "entry_items.select", "entry_items.count",
     "entries.delete", "entry_items.delete"}

\* the items asked to be deleted: every id with a working database, and the
\* first item with every failing database call
DeleteItemRequests ==
    {[itemId |-> i, fault |-> "none"] : i \in 1..(MaxItemRows + 1)}
        \cup {[itemId |-> 1, fault |-> f] : f \in DeleteItemFaults}

----------------------------------------------------------------------------
(* Dates: an instant is a number of hours, hour 0 being a Monday 00:00 UTC; *)
(* a calendar date is a number of days                                      *)

\* toISOString().split('T')[0]: the UTC date of an instant
IsoDate(t) == t \div 24

\* getFullYear(), getMonth(), getDate(): the local date of an instant
LocalDate(t) == (t + tz) \div 24

\* new Date(year, month, date), setHours(0, 0, 0, 0): local midnight of a local date
LocalMidnight(d) == d * 24 - tz

\* getDay(): 0 for Sunday to 6 for Saturday
GetDay(t) == (LocalDate(t) + 1) % 7

\* the server's time zones
Offsets == {-2, 0, 3}

----------------------------------------------------------------------------
(* What a select returns *)

Enumerations(S) ==
    {s \in [1..Cardinality(S) -> S] : \A i, j \in DOMAIN s : i # j => s[i] # s[j]}

RECURSIVE AscendingById(_)
AscendingById(S) ==
    IF S = {} THEN <<>>
    ELSE LET r == CHOOSE r \in S : \A q \in S : r.id <= q.id
         IN <<r>> \o AscendingById(S \ {r})

Reverse(s) == [k \in DOMAIN s |-> s[Len(s) + 1 - k]]

\* a select without .order(): the rows come in no promised order (every order
\* of a result of up to MaxShuffled rows, two orders of a longer one)
FetchOrders(S) ==
    IF Cardinality(S) <= MaxShuffled THEN Enumerations(S)
    ELSE {AscendingById(S), Reverse(AscendingById(S))}

RECURSIVE NewestFirstById(_)
NewestFirstById(S) ==
    IF S = {} THEN <<>>
    ELSE LET r == CHOOSE r \in S :
                     \A q \in S : r.timestamp > q.timestamp
                                     \/ (r.timestamp = q.timestamp /\ r.id <= q.id)
         IN <<r>> \o NewestFirstById(S \ {r})

\* .order('timestamp', { ascending: false }): rows of one timestamp in any order
NewestFirst(S) ==
    IF Cardinality(S) <= MaxShuffled
    THEN {s \in Enumerations(S) :
             \A i, j \in DOMAIN s : i < j => s[i].timestamp >= s[j].timestamp}
    ELSE {NewestFirstById(S)}

----------------------------------------------------------------------------
(* GET /api/dashboard/today *)

DashError(route, user, status) ==
    [route |-> route, status |-> status, error |-> "internal_error", user |-> user]

\* itemsByEntryId[id] || []: the items of an entry, in the order fetched
ItemsOfEntry(items, id) == SelectSeq(items, LAMBDA r : r.entry_id = id)

\* entrySummaries
EntrySummaries(es, allItems) ==
    [k \in DOMAIN es |->
        LET entryItems == MapToEntryItems(ItemsOfEntry(allItems, es[k].id)) IN
        [id |-> es[k].id, raw_text |-> es[k].raw_text, timestamp |-> es[k].timestamp,
         totals |-> aggregateItems(entryItems), item_count |-> Len(entryItems)]]

\* the body of the response once both selects are done
TodayBody(date, es, allItems) ==
    [date |-> date,
     totals |-> aggregateItems(MapToEntryItems(allItems)),
     entries |-> EntrySummaries(es, allItems),
     entry_count |-> Len(es)]

TodayFaults == {"none", "entries.select", "entry_items.select"}

\* the first select of the today route without .eq('user_id', user.id)
TodayEntries_AnyUser(user, now) ==
    LET startOfDay == LocalMidnight(LocalDate(now)) IN
    {e \in entries : e.timestamp >= startOfDay /\ e.timestamp < startOfDay + 24}

\* the rows the first select of the today route matches
TodayEntries(user, now) ==
    LET startOfDay == LocalMidnight(LocalDate(now)) IN
    {e \in entries :
        e.user_id = user /\ e.timestamp >= startOfDay /\ e.timestamp < startOfDay + 24}

\* the rows of entry_items with .in('entry_id', entryIds)
ItemsIn(es) == {r \in entry_items : r.entry_id \in {e.id : e \in es}}

\* es and allItems are what the two selects returned
getTodayDashboard(user, now, es, allItems, fault) ==
    LET date == IsoDate(LocalMidnight(LocalDate(now))) IN
    IF fault = "entries.select" THEN DashError("today", user, 500)
    ELSE IF Len(es) = 0
         THEN [route |-> "today", status |-> 200, user |-> user]
                  @@ TodayBody(date, <<>>, <<>>)
    ELSE IF fault = "entry_items.select" THEN DashError("today", user, 500)
    ELSE [route |-> "today", status |-> 200, user |-> user]
             @@ TodayBody(date, es, allItems)

----------------------------------------------------------------------------
(* GET /api/dashboard/history and GET /api/dashboard/weekly *)

\* the loop over entries with entriesByDate[date] = [entry.id] in every turn
RECURSIVE GroupByDate_Replaces(_, _, _)
GroupByDate_Replaces(es, k, buckets) ==
    IF k > Len(es) THEN buckets
    ELSE LET date == IsoDate(es[k].timestamp)
             at == {b \in DOMAIN buckets : buckets[b].date = date}
         IN IF at = {}
            THEN GroupByDate_Replaces(es, k + 1,
                     Append(buckets, [date |-> date, entryIds |-> <<es[k].id>>]))
            ELSE GroupByDate_Replaces(es, k + 1,
                     [buckets EXCEPT ![CHOOSE b \in at : TRUE].entryIds = <<es[k].id>>])

\* the loop building entriesByDate, read back with Object.entries: one bucket
\* per date, in the order the dates first occur
RECURSIVE GroupByDate(_, _, _)
GroupByDate(es, k, buckets) ==
    IF k > Len(es) THEN buckets
    ELSE LET date == IsoDate(es[k].timestamp)
             at == {b \in DOMAIN buckets : buckets[b].date = date}
         IN IF at = {}
            THEN GroupByDate(es, k + 1,
                     Append(buckets, [date |-> date, entryIds |-> <<es[k].id>>]))
            ELSE GroupByDate(es, k + 1,
                     [buckets EXCEPT ![CHOOSE b \in at : TRUE].entryIds =
                                         Append(@, es[k].id)])

\* entryIds.flatMap((id) => itemsByEntryId[id] || [])
RECURSIVE DayItems(_, _)
DayItems(entryIds, items) ==
    IF entryIds = <<>> THEN <<>>
    ELSE ItemsOfEntry(items, Head(entryIds)) \o DayItems(Tail(entryIds), items)

\* Object.entries(entriesByDate).map(...)
DailySummaries(es, items) ==
    LET buckets == GroupByDate(es, 1, <<>>) IN
    [b \in DOMAIN buckets |->
        [date |-> buckets[b].date,
         totals |-> InlineDayTotals(DayItems(buckets[b].entryIds, items)),
         entry_count |-> Len(buckets[b].entryIds)]]

RemoveAt(list, k) == [j \in 1..(Len(list) - 1) |-> IF j < k THEN list[j] ELSE list[j + 1]]

\* .sort((a, b) => a.date.localeCompare(b.date))
RECURSIVE SortByDate_Ascending(_)
SortByDate_Ascending(days) ==
    IF days = <<>> THEN <<>>
    ELSE LET k == CHOOSE k \in DOMAIN days :
                     \A j \in DOMAIN days :
                        days[k].date < days[j].date
                            \/ (days[k].date = days[j].date /\ k <= j)
         IN <<days[k]>> \o SortByDate_Ascending(RemoveAt(days, k))

\* .sort((a, b) => b.date.localeCompare(a.date))
RECURSIVE SortByDate(_)
SortByDate(days) ==
    IF days = <<>> THEN <<>>
    ELSE LET k == CHOOSE k \in DOMAIN days :
                     \A j \in DOMAIN days :
                        days[k].date > days[j].date
                            \/ (days[k].date = days[j].date /\ k <= j)
         IN <<days[k]>> \o SortByDate(RemoveAt(days, k))

\* the days parameter of the query: absent, not a number, or digits
NoDays == [given |-> FALSE, nan |-> FALSE, n |-> 0]
NotANumber == [given |-> TRUE, nan |-> TRUE, n |-> 0]
Digits(n) == [given |-> TRUE, nan |-> FALSE, n |-> n]
DaysParams == {NoDays, NotANumber, Digits(0), Digits(2), Digits(400)}

\* Math.min(Math.max(parseInt(searchParams.get('days') || '30', 10), 1), 365)
DaysOfQuery(q) ==
    LET parsed == IF q.given THEN q.n ELSE 30
        atLeast == IF parsed > 1 THEN parsed ELSE 1
    IN IF atLeast < 365 THEN atLeast ELSE 365

HistoryFaults == {"none", "rpc.error", "entries.select", "entry_items.select"}

\* the rows the history route's select of entries matches
HistoryEntries(user, now, q) ==
    {e \in entries :
        /\ e.user_id = user
        /\ e.timestamp >= now - DaysOfQuery(q) * 24
        /\ e.timestamp <= now}

\* es and items are what the two selects returned; get_daily_aggregates is no
\* function of the schema, so the rpc fails and the route aggregates itself
getHistoryDashboard(user, now, q, es, items, fault) ==
    LET period == [from |-> IsoDate(now - DaysOfQuery(q) * 24), to |-> IsoDate(now)]
        ok(days) == [route |-> "history", status |-> 200, user |-> user,
                     days |-> days, period |-> period,
                     fetched |-> {es[k].id : k \in DOMAIN es}]
    IN
    IF q.nan THEN DashError("history", user, 500)
    ELSE IF fault \in {"rpc.error", "entries.select"} THEN DashError("history", user, 500)
    ELSE IF Len(es) = 0 THEN ok(<<>>)
    ELSE IF fault = "entry_items.select" THEN DashError("history", user, 500)
    ELSE ok(SortByDate(DailySummaries(es, items)))

\* getWeekStart(date): the same time of day on the Monday of the date's week
getWeekStart(date) ==
    LET day == GetDay(date)
        diff == LocalDate(date) - day + (IF day = 0 THEN -6 ELSE 1)
    IN date + (diff - LocalDate(date)) * 24

\* getWeekEnd(date)
getWeekEnd(date) == getWeekStart(date) + 6 * 24

\* getWeekStart(today) after setHours(0, 0, 0, 0)
WeekStartOf(now) == LocalMidnight(LocalDate(getWeekStart(now)))

\* weekEndQuery: the last instant of the local Sunday
WeekEndQueryOf(now) == LocalMidnight(LocalDate(getWeekEnd(now))) + 23

\* the rows the weekly route's select of entries matches
WeeklyEntries(user, now) ==
    {e \in entries :
        /\ e.user_id = user
        /\ e.timestamp >= WeekStartOf(now)
        /\ e.timestamp <= WeekEndQueryOf(now)}

WeeklyFaults == {"none", "entries.select", "entry_items.select"}

\* es and items are what the two selects returned; dailySummaries is kept with
\* the response as `days`
getWeeklySummary(user, now, es, items, fault) ==
    LET week == [start |-> IsoDate(WeekStartOf(now)), end |-> IsoDate(getWeekEnd(now))]
        dailySummaries == DailySummaries(es, items)
        average == computeWeeklyAverage(dailySummaries)
        days_logged == Len(dailySummaries)
        ok(days, averages, daily_ranges, logged, score) ==
            [route |-> "weekly", status |-> 200, user |-> user, week |-> week,
             averages |-> averages, daily_ranges |-> daily_ranges,
             days_logged |-> logged, consistency_score |-> score,
             days |-> days, fetched |-> {es[k].id : k \in DOMAIN es}]
    IN
    IF fault = "entries.select" THEN DashError("weekly", user, 500)
    ELSE IF Len(es) = 0 THEN ok(<<>>, emptyTotals, emptyDailyRanges, 0, 0)
    ELSE IF fault = "entry_items.select" THEN DashError("weekly", user, 500)
    ELSE ok(dailySummaries, average.averages, average.daily_ranges, days_logged,
            MathRoundOfQuotient(days_logged * 100, 7))

----------------------------------------------------------------------------
(* Specifications *)

ValidatorIdle ==
    /\ llmResponse = NoResponse
    /\ emitted = NoEmission
    /\ parseResult = NoResult
    /\ vpc = "idle"

AggIdle ==
    /\ aggInput = <<>>
    /\ aggResult = NoAggregate

DbIdle ==
    /\ entries = {}
    /\ entry_items = {}
    /\ nextEntryId = 1
    /\ nextItemId = 1
    /\ httpResponse = NoHttpResponse

NoDashResponse == [route |-> "none", status |-> 0]

DashIdle ==
    /\ tz = 0
    /\ wallClock \in ServerClock
    /\ dashResponse = NoDashResponse

\* the log page as useState initialises it (log/page.tsx:95-100)
InitialPage ==
    [entries |-> <<>>, isLoading |-> TRUE, isLoadingMore |-> FALSE, hasMore |-> TRUE,
     total |-> 0, error |-> FALSE]

OthersIdle ==
    /\ logPage = InitialPage
    /\ requests = <<>>
    /\ heap = <<>>
    /\ calls = <<>>

(* The validator on its own: one answer of the LLM, one call *)

ValidatorInit ==
    /\ OthersIdle
    /\ emitted \in Emissions
    /\ llmResponse = ResponseOf(emitted)
    /\ parseResult = NoResult
    /\ vpc = "ready"
    /\ AggIdle
    /\ DbIdle
    /\ DashIdle

ParseFood ==
    /\ vpc = "ready"
    /\ parseResult' = parseFoodWithLLM(llmResponse)
    /\ vpc' = "done"
    /\ UNCHANGED <<otherVars, llmResponse, emitted, aggVars, dbVars, dashVars>>

\* the items returned, written back as {"items": [...]} and handed to the
\* validator as the next answer (the text after the prefilled brace)
Revalidate ==
    /\ vpc = "done"
    /\ parseResult.ok
    /\ LET text == Tail(JSONstringify(Obj([items |-> Arr(parseResult.items)])))
       IN /\ llmResponse' = [kind |-> "text", text |-> text]
          /\ parseResult' = parseFoodWithLLM([kind |-> "text", text |-> text])
    /\ vpc' = "again"
    /\ UNCHANGED <<otherVars, emitted, aggVars, dbVars, dashVars>>

ValidatorNext == ParseFood \/ Revalidate

ValidatorSpec == ValidatorInit /\ [][ValidatorNext]_vars

(* The aggregation functions on their own: one list, one call *)

AggInit ==
    /\ OthersIdle
    /\ aggInput \in SeqsUpTo(AggItems, MaxAggLen)
    /\ aggResult = NoAggregate
    /\ ValidatorIdle
    /\ DbIdle
    /\ DashIdle

AggregateItems ==
    /\ aggResult.op = "none"
    /\ aggResult' = [op |-> "aggregateItems", totals |-> aggregateItems(aggInput),
                     confidence |-> "none"]
    /\ UNCHANGED <<otherVars, aggInput, validatorVars, dbVars, dashVars>>

AggregateTotals ==
    /\ aggResult.op = "none"
    /\ aggResult' = [op |-> "aggregateTotals",
                     totals |-> aggregateTotals([k \in DOMAIN aggInput |->
                                                    TotalsOfItem(aggInput[k])]),
                     confidence |-> "none"]
    /\ UNCHANGED <<otherVars, aggInput, validatorVars, dbVars, dashVars>>

AggregateConfidence ==
    /\ aggResult.op = "none"
    /\ aggResult' = [op |-> "aggregateConfidence", totals |-> emptyTotals,
                     confidence |-> aggregateConfidence(aggInput)]
    /\ UNCHANGED <<otherVars, aggInput, validatorVars, dbVars, dashVars>>

ComputeWeeklyAverage ==
    /\ aggResult.op = "none"
    /\ LET r == computeWeeklyAverage(DaysOf(aggInput)) IN
       aggResult' = [op |-> "computeWeeklyAverage", totals |-> emptyTotals,
                     confidence |-> "none", averages |-> r.averages,
                     daily_ranges |-> r.daily_ranges]
    /\ UNCHANGED <<otherVars, aggInput, validatorVars, dbVars, dashVars>>

\* validateTotals on the one record of the list, one of its fields replaced
ValidateTotals ==
    /\ aggResult.op = "none"
    /\ Len(aggInput) = 1
    /\ \E f \in Nutrients, r \in ProbeRanges :
          LET totals == [TotalsOfItem(aggInput[1]) EXCEPT ![f] = r] IN
          aggResult' = [op |-> "validateTotals", totals |-> totals, confidence |-> "none",
                        valid |-> validateTotals(totals),
                        rangeValid |-> [g \in Nutrients |-> validateRange(totals[g])]]
    /\ UNCHANGED <<otherVars, aggInput, validatorVars, dbVars, dashVars>>

\* the per-day sums of the history and weekly routes
SumDayItems ==
    /\ aggResult.op = "none"
    /\ aggResult' = [op |-> "inlineDayTotals",
                     totals |-> InlineDayTotals([k \in DOMAIN aggInput |->
                                                    RowOfEntryItem(aggInput[k])]),
                     confidence |-> "none"]
    /\ UNCHANGED <<otherVars, aggInput, validatorVars, dbVars, dashVars>>

\* the log page's totals
AggregateItemTotals ==
    /\ aggResult.op = "none"
    /\ aggResult' = [op |-> "aggregateItemTotals", totals |-> aggregateItemTotals(aggInput),
                     confidence |-> "none"]
    /\ UNCHANGED <<otherVars, aggInput, validatorVars, dbVars, dashVars>>

AggNext ==
    \/ AggregateItems
    \/ AggregateTotals
    \/ AggregateConfidence
    \/ ComputeWeeklyAverage
    \/ ValidateTotals
    \/ SumDayItems
    \/ AggregateItemTotals

AggSpec == AggInit /\ [][AggNext]_vars

(* The entry routes: requests served one after the other *)

Init ==
    /\ OthersIdle
    /\ ValidatorIdle
    /\ AggIdle
    /\ DbIdle
    /\ DashIdle

Apply(o) ==
    /\ entries' = o.entries
    /\ entry_items' = o.entry_items
    /\ nextEntryId' = o.nextEntryId
    /\ nextItemId' = o.nextItemId
    /\ httpResponse' = o.response
    /\ dashResponse' = NoDashResponse
    /\ UNCHANGED <<otherVars, validatorVars, aggVars, tz, wallClock>>

\* POST /api/entries
CreateEntry ==
    /\ nextEntryId <= MaxEntries
    /\ \E user \in Users, now \in ServerClock,
          r \in Scenarios("eggs and toast ", CreateFaults) :
          Apply(createEntry(user, r.raw_text, r.timestamp, now,
                            ResponseOf(r.emission), r.fault))

\* PUT /api/entries/:id
UpdateEntry ==
    /\ nextItemId <= MaxItemRows
    /\ \E user \in Users, id \in 1..MaxEntries,
          r \in Scenarios("a bowl of soup", UpdateFaults) :
          Apply(updateEntry(user, id, r.raw_text, r.timestamp,
                            ResponseOf(r.emission), r.fault))

\* DELETE /api/entries/:id
DeleteEntry ==
    \E user \in Users, id \in 1..MaxEntries, fault \in DeleteFaults :
        Apply(deleteEntry(user, id, fault))

\* DELETE /api/entries/:id/items/:itemId
DeleteItem ==
    \E user \in Users, id \in 1..MaxEntries, r \in DeleteItemRequests :
        Apply(deleteItem(user, id, r.itemId, r.fault))

Answer(response) ==
    /\ dashResponse' = response
    /\ httpResponse' = NoHttpResponse
    /\ UNCHANGED <<otherVars, validatorVars, aggVars, entries, entry_items, nextEntryId, nextItemId,
                   tz, wallClock>>

\* GET /api/dashboard/today
GetTodayDashboard ==
    \E user \in Users, fault \in TodayFaults :
        \E es \in NewestFirst(TodayEntries(user, wallClock)) :
            \E allItems \in FetchOrders(ItemsIn(TodayEntries(user, wallClock))) :
                Answer(getTodayDashboard(user, wallClock, es, allItems, fault))

Next == CreateEntry \/ UpdateEntry \/ DeleteEntry \/ DeleteItem \/ GetTodayDashboard

Spec == Init /\ [][Next]_vars

(* The dashboard routes over a diary already written; the history and the
   weekly request are each answered once, from the idle state *)

\* the instants of the entries a diary may hold: noon of nine days in a row,
\* and hours near the ends of the days and of the week
DiaryInstants == <<-12, -2, 1, 12, 36, 60, 61, 66, 70, 84, 108, 132, 156, 169, 180>>

DiaryEntry(k) ==
    [id |-> k, user_id |-> IF DiaryInstants[k] = 61 THEN "u2" ELSE "u1",
     raw_text |-> "eggs and toast", timestamp |-> DiaryInstants[k]]

\* what the LLM answered for the k-th entry
DiaryItems(k) ==
    CASE k % 4 = 0 -> <<ItemEggs>>
      [] k % 4 = 1 -> <<ItemGuess, ItemToast>>
      [] k % 4 = 2 -> <<>>
      [] OTHER -> <<ItemInverted, ItemEggs>>

DiaryRows(k) == RowSet(InsertedRows(k, DiaryItems(k), 2 * k - 1))

\* the entries written: any few of them, or all of a stretch of time
Diaries ==
    {S \in SUBSET DOMAIN DiaryInstants : Cardinality(S) <= MaxDiary}
        \cup {a..b : a, b \in DOMAIN DiaryInstants}

DashClock == ServerClock \cup {60}

DashInit ==
    /\ OthersIdle
    /\ ValidatorIdle
    /\ AggIdle
    /\ tz \in Offsets
    /\ wallClock \in DashClock
    /\ dashResponse = NoDashResponse
    /\ httpResponse = NoHttpResponse
    /\ nextEntryId = Len(DiaryInstants) + 1
    /\ nextItemId = 2 * Len(DiaryInstants) + 1
    /\ \E S \in Diaries :
          /\ entries = {DiaryEntry(k) : k \in S}
          /\ entry_items = UNION {DiaryRows(k) : k \in S}

\* GET /api/dashboard/history
GetHistoryDashboard ==
    /\ dashResponse = NoDashResponse
    /\ \E user \in Users, q \in DaysParams, fault \in HistoryFaults :
         \E es \in FetchOrders(HistoryEntries(user, wallClock, q)) :
             \E items \in FetchOrders(ItemsIn(HistoryEntries(user, wallClock, q))) :
                 Answer(getHistoryDashboard(user, wallClock, q, es, items, fault))

\* GET /api/dashboard/weekly
GetWeeklySummary ==
    /\ dashResponse = NoDashResponse
    /\ \E user \in Users, fault \in WeeklyFaults :
         \E es \in FetchOrders(WeeklyEntries(user, wallClock)) :
             \E items \in FetchOrders(ItemsIn(WeeklyEntries(user, wallClock))) :
                 Answer(getWeeklySummary(user, wallClock, es, items, fault))

DashNext == GetTodayDashboard \/ GetHistoryDashboard \/ GetWeeklySummary

DashSpec == DashInit /\ [][DashNext]_vars

(* Weekly averages of days with narrow ranges, whose means end in .5 *)

NarrowRanges == <<Range(0, 0, 0), Range(1, 1, 1), Range(0, 1, 1), Range(1, 1, 2)>>

\* a day's totals as an EntryItem; the range with min > mid gives invalid totals
NarrowItems ==
    {[name |-> "food", confidence |-> "high", calories |-> Scale(a, 3), protein |-> b,
      carbs |-> a, fat |-> Widen(b), fiber |-> b] :
        a \in {NarrowRanges[k] : k \in DOMAIN NarrowRanges} \cup {Range(2, 1, 1)},
        b \in {NarrowRanges[1], NarrowRanges[2]}}

WeekInit ==
    /\ OthersIdle
    /\ aggInput \in SeqsUpTo(NarrowItems, MaxAggLen)
    /\ aggResult = NoAggregate
    /\ ValidatorIdle
    /\ DbIdle
    /\ DashIdle

WeekNext == ComputeWeeklyAverage

WeekSpec == WeekInit /\ [][WeekNext]_vars

(* Order and grouping: lists of items with distinct values *)

FoldItems ==
    {AggItem(1, 2), AggItem(2, 3), AggItem(3, 4), AggItem(4, 1), AggItem(2, 2),
     AggItem(3, 1)}

FoldInit ==
    /\ OthersIdle
    /\ aggInput \in SeqsUpTo(FoldItems, MaxAggLen)
    /\ aggResult = NoAggregate
    /\ ValidatorIdle
    /\ DbIdle
    /\ DashIdle

\* the today route's totals over the list, its items spread over the entries
SummarizeToday ==
    /\ aggResult.op = "none"
    /\ \E labels \in [DOMAIN aggInput -> 1..MaxGroups] :
          LET es == [k \in 1..MaxGroups |->
                        [id |-> k, raw_text |-> "eggs and toast", timestamp |-> 1]]
              allItems == [k \in DOMAIN aggInput |->
                              [id |-> k] @@
                              [RowOfEntryItem(aggInput[k]) EXCEPT !.entry_id = labels[k]]]
              body == TodayBody(0, es, allItems)
          IN aggResult' = [op |-> "todayTotals", totals |-> body.totals,
                           confidence |-> "none", entries |-> body.entries,
                           labels |-> labels]
    /\ UNCHANGED <<otherVars, aggInput, validatorVars, dbVars, dashVars>>

FoldNext == AggregateItems \/ SummarizeToday

FoldSpec == FoldInit /\ [][FoldNext]_vars

----------------------------------------------------------------------------
(* Properties of the validator (ValidatorSpec) *)

Validated == vpc = "done"

HasInvalidItem(arr) == \E k \in DOMAIN arr : ~isValidParsedItem(arr[k])

\* the schema of section 4.2, stated on the value itself
StrictRange(v) ==
    /\ v.t = "object"
    /\ {"min", "mid", "max"} \subseteq DOMAIN v.f
    /\ \A c \in {"min", "mid", "max"} : v.f[c].t = "number"

StrictItem(v) ==
    /\ v.t = "object"
    /\ "confidence" \in DOMAIN v.f
    /\ v.f["confidence"] \in {Str("low"), Str("medium"), Str("high")}
    /\ \A field \in {"calories", "protein", "carbs", "fat", "fiber"} :
          field \in DOMAIN v.f /\ StrictRange(v.f[field])

NonEmptyName(v) ==
    /\ v.t = "object"
    /\ "name" \in DOMAIN v.f
    /\ v.f["name"].t = "string"
    /\ v.f["name"].s # ""

\* C1: a response whose items array holds an element failing the item check
\* is rejected whole: the call fails and returns no item, wherever the bad
\* element stands.
C1_AllOrNothing ==
    (Validated /\ emitted.shape \in ArrayShapes /\ HasInvalidItem(emitted.items))
        => (~parseResult.ok /\ parseResult.items = <<>>)

C1_Witness ==
    /\ Validated
    /\ emitted.shape = "object"
    /\ Len(emitted.items) = 2
    /\ isValidParsedItem(emitted.items[1])
    /\ ~isValidParsedItem(emitted.items[2])
    /\ parseResult = Threw(ErrBadItem)

\* C3: a response holding an item whose name is missing, is not a string or
\* is the empty string is rejected.
C3_NameNonEmpty ==
    (Validated /\ emitted.shape \in ArrayShapes
        /\ \E k \in DOMAIN emitted.items : ~NonEmptyName(emitted.items[k]))
        => ~parseResult.ok

\* C4: a response holding an element that is no object, or whose confidence is
\* missing or outside low/medium/high, or with a nutrient field missing or not
\* an object of three numbers, is rejected; nothing is coerced.
C4_StrictTypes ==
    (Validated /\ emitted.shape \in ArrayShapes
        /\ \E k \in DOMAIN emitted.items : ~StrictItem(emitted.items[k]))
        => ~parseResult.ok

C4_Witness ==
    /\ Validated
    /\ emitted = Emission("object",
                          <<ItemToast, WithComponent(ItemEggs, "calories", "mid", Str("155"))>>)
    /\ parseResult = Threw(ErrBadItem)

ItemParts(v) ==
    <<Get(v, "name"), Get(v, "confidence"),
      [f \in {"calories", "protein", "carbs", "fat", "fiber"}, c \in {"min", "mid", "max"}
          |-> Get(Get(v, f), c)]>>

\* C5: an accepted response returns as many items as the items array holds,
\* the k-th with the name, confidence and fifteen components of the k-th element.
C5_OrderAndValuesKept ==
    (Validated /\ parseResult.ok)
        => /\ Len(parseResult.items) = Len(emitted.items)
           /\ \A k \in DOMAIN emitted.items :
                 ItemParts(parseResult.items[k]) = ItemParts(emitted.items[k])

C5_Witness ==
    /\ Validated
    /\ emitted.shape \in WellFormedShapes
    /\ emitted.items = <<ItemEggs, ItemToast>>
    /\ parseResult.ok
    /\ Get(parseResult.items[1], "name") = Str("eggs")
    /\ Get(parseResult.items[2], "name") = Str("toast with butter")

\* C6: the failure kind is that of the first failing stage: text that is no
\* JSON once prefixed gives the malformed-response error, JSON without an items
\* array the missing-items error, an items array with a bad element the
\* invalid-item error, and nothing else is reported for a text.
C6_ErrorKinds ==
    (Validated /\ llmResponse.kind = "text")
        => /\ (emitted.shape \in BrokenShapes \cup ProseShapes)
                 => parseResult = Threw(ErrJson)
           /\ (emitted.shape \in NoItemsShapes) => parseResult = Threw(ErrNoItems)
           /\ (emitted.shape \in WellFormedShapes /\ HasInvalidItem(emitted.items))
                 => parseResult = Threw(ErrBadItem)
           /\ (emitted.shape \in WellFormedShapes /\ ~HasInvalidItem(emitted.items))
                 => parseResult.ok
           /\ parseResult.error \in {ErrJson, ErrNoItems, ErrBadItem, ""}

C6_Witness ==
    /\ Validated
    /\ emitted.shape = "itemsString"
    /\ parseResult = Threw(ErrNoItems)

FirstInvalid(arr) ==
    IF HasInvalidItem(arr)
    THEN CHOOSE k \in DOMAIN arr :
            ~isValidParsedItem(arr[k]) /\ \A j \in 1..(k-1) : isValidParsedItem(arr[j])
    ELSE 0

C7Probes ==
    {<<Obj(Without(ItemEggs.f, "confidence"))>>,
     <<ItemEggs, Obj(Without(ItemEggs.f, "confidence"))>>}

\* C7: the error of a failed validation tells which item failed: two rejected
\* batches whose first bad elements stand at different places get different errors.
C7_ErrorIdentifiesItem ==
    (Validated /\ emitted.shape \in WellFormedShapes /\ parseResult.error = ErrBadItem)
        => \A p \in C7Probes :
              parseFoodWithLLM(ResponseOf(Emission("object", p))).error = parseResult.error
                  => FirstInvalid(p) = FirstInvalid(emitted.items)

\* C21: the items returned for a valid response, serialised back into the
\* {items: [...]} shape and validated again, are accepted and returned equal
\* to the first result.
C21_RevalidationIdempotent ==
    (vpc = "again")
        => /\ parseResult.ok
           /\ parseResult.items = parseFoodWithLLM(ResponseOf(emitted)).items

\* the same, for responses whose numbers are all finite
RevalidationOfFiniteNumbers ==
    (vpc = "again" /\ \A k \in DOMAIN emitted.items : emitted.items[k] # ItemHuge)
        => /\ parseResult.ok
           /\ parseResult.items = parseFoodWithLLM(ResponseOf(emitted)).items

----------------------------------------------------------------------------
(* Properties of the entry routes (Spec) *)

Succeeded == httpResponse.status \in {200, 201}

\* C2: an item with a nutrient range breaking min <= mid <= max or min >= 0 is
\* rejected before aggregation: none is stored in entry_items and none is
\* among the items a create or update hands to aggregateItems.
C2_OnlySaneRangesStored ==
    /\ \A r \in entry_items : validateTotals(dbEntryItemToEntryItem(r))
    /\ Succeeded =>
          \A k \in DOMAIN httpResponse.items : validateTotals(httpResponse.items[k])

----------------------------------------------------------------------------
(* Properties of the aggregation functions (AggSpec) *)

RECURSIVE SumOf(_, _, _)
SumOf(list, f, c) ==
    IF list = <<>> THEN 0 ELSE list[1][f][c] + SumOf(Tail(list), f, c)

\* C8: every component of every nutrient of aggregateItems(items) is the sum of
\* that component over the items; for one item the result is its five ranges.
C8_Additive ==
    (aggResult.op = "aggregateItems")
        => /\ \A f \in Nutrients, c \in Components :
                 aggResult.totals[f][c] = SumOf(aggInput, f, c)
           /\ Len(aggInput) = 1 => aggResult.totals = TotalsOfItem(aggInput[1])

C8_Witness ==
    /\ aggResult.op = "aggregateItems"
    /\ Len(aggInput) = 3
    /\ aggInput[1] # aggInput[2]
    /\ aggInput[2] # aggInput[3]
    /\ aggResult.totals.calories.mid = 400
    /\ aggResult.totals.fat.max > aggResult.totals.carbs.max

AllValid(list) == \A k \in DOMAIN list : validateTotals(list[k])

\* C9: when every item (or every totals record) of the list satisfies the range
\* invariant in its five fields, the result of aggregateItems (aggregateTotals)
\* satisfies validateTotals.
C9_ValidityPreserved ==
    (aggResult.op \in {"aggregateItems", "aggregateTotals"} /\ AllValid(aggInput))
        => validateTotals(aggResult.totals)

C9_Witness ==
    /\ aggResult.op = "aggregateTotals"
    /\ Len(aggInput) = 3
    /\ AllValid(aggInput)
    /\ aggResult.totals.protein = Range(3, 6, 12)

ConfidenceRank == [low |-> 1, medium |-> 2, high |-> 3]

ConfidencesOf(list) == {list[k].confidence : k \in DOMAIN list}

\* C10: aggregateConfidence returns the worst confidence present under
\* low < medium < high, and high for the empty list; it depends on the set of
\* confidences only, not on their order or number.
C10_WorstConfidence ==
    (aggResult.op = "aggregateConfidence")
        => LET present == ConfidencesOf(aggInput) IN
           IF present = {} THEN aggResult.confidence = "high"
           ELSE /\ aggResult.confidence \in present
                /\ \A c \in present :
                      ConfidenceRank[aggResult.confidence] <= ConfidenceRank[c]

C10_Witness ==
    /\ aggResult.op = "aggregateConfidence"
    /\ Len(aggInput) = 3
    /\ aggInput[1].confidence = "high"
    /\ aggInput[2].confidence = "low"
    /\ aggInput[3].confidence = "medium"
    /\ aggResult.confidence = "low"

Orderings(n) ==
    {p \in [1..n -> 1..n] : \A i, j \in 1..n : i # j => p[i] # p[j]}

Permuted(list, p) == [k \in DOMAIN list |-> list[p[k]]]

\* the elements of the list labelled l, in the order of the list
RECURSIVE SubList(_, _, _)
SubList(list, labels, l) ==
    IF list = <<>> THEN <<>>
    ELSE LET rest == SubList(Tail(list), Tail(labels), l) IN
         IF Head(labels) = l THEN <<Head(list)>> \o rest ELSE rest

WeeklyAveraged == aggResult.op = "computeWeeklyAverage"

\* C15: for n > 0 days every component of the averages is the mean of that
\* component over the days rounded to the nearest integer, a mean ending in
\* exactly .5 going upward: mean - 1/2 < average <= mean + 1/2.
C15_RoundedMean ==
    (WeeklyAveraged /\ Len(aggInput) > 0)
        => \A f \in Nutrients, c \in Components :
              LET n == Len(aggInput)
                  sum == SumOf(aggInput, f, c)
                  average == aggResult.averages[f][c]
              IN /\ 2 * sum - n < 2 * n * average
                 /\ 2 * n * average <= 2 * sum + n

C15_Witness ==
    /\ WeeklyAveraged
    /\ Len(aggInput) = 2
    /\ aggInput[1].protein.mid + aggInput[2].protein.mid = 3
    /\ aggResult.averages.protein.mid = 2
    /\ aggInput[1].fat.min + aggInput[2].fat.min = -1
    /\ aggResult.averages.fat.min = 0

MidsOf(list, f) == {list[k][f].mid : k \in DOMAIN list}

\* C16: for n > 0 days and every nutrient, daily_ranges.min is the smallest and
\* daily_ranges.max the largest of the days' mid values; the days' min and max
\* components play no part.
C16_DailyRangesOfMids ==
    (WeeklyAveraged /\ Len(aggInput) > 0)
        => \A f \in Nutrients :
              LET mids == MidsOf(aggInput, f)
                  range == aggResult.daily_ranges[f]
              IN /\ range.min \in mids
                 /\ range.max \in mids
                 /\ \A m \in mids : range.min <= m /\ m <= range.max

C16_Witness ==
    /\ WeeklyAveraged
    /\ Len(aggInput) = 3
    /\ aggResult.daily_ranges.carbs = [min |-> 1, max |-> 3]
    /\ \E k \in DOMAIN aggInput : aggInput[k].carbs.min < 1
    /\ \E k \in DOMAIN aggInput : aggInput[k].carbs.max > 3

AllZero(totals) ==
    \A f \in Nutrients, c \in Components : totals[f][c] = 0

\* C17: the empty cases return explicit zeros: aggregateItems([]) and
\* aggregateTotals([]) are the all-zero totals, which satisfy validateTotals,
\* and computeWeeklyAverage([]) has all-zero averages and {min: 0, max: 0}
\* daily ranges for each of the five nutrients.
C17_EmptyCases ==
    (aggInput = <<>>)
        => /\ (aggResult.op \in {"aggregateItems", "aggregateTotals"})
                 => AllZero(aggResult.totals) /\ validateTotals(aggResult.totals)
           /\ WeeklyAveraged
                 => /\ AllZero(aggResult.averages)
                    /\ DOMAIN aggResult.daily_ranges = Nutrients
                    /\ \A f \in Nutrients :
                          aggResult.daily_ranges[f] = [min |-> 0, max |-> 0]

C17_Witness ==
    /\ aggInput = <<>>
    /\ WeeklyAveraged
    /\ aggResult.averages.fiber.max = 0
    /\ aggResult.daily_ranges.fiber.max = 0

\* the range invariant of section 3, stated by its violations
BrokenRange(r) == r.min > r.mid \/ r.mid > r.max \/ r.min < 0

\* C18: validateRange(r) is true exactly when min <= mid <= max and min >= 0,
\* degenerate ranges included, and validateTotals(t) exactly when validateRange
\* holds of all five fields: one broken field makes the totals invalid.
C18_ValidateExactly ==
    (aggResult.op = "validateTotals")
        => /\ \A f \in Nutrients :
                 aggResult.rangeValid[f] <=> ~BrokenRange(aggResult.totals[f])
           /\ aggResult.valid
                 <=> ~(\E f \in Nutrients : BrokenRange(aggResult.totals[f]))

C18_Witness ==
    /\ aggResult.op = "validateTotals"
    /\ ~aggResult.valid
    /\ aggResult.totals.fiber = Range(1, 0, 2)
    /\ ~aggResult.rangeValid["fiber"]
    /\ aggResult.totals.carbs = Range(1, 3, 6)
    /\ \A f \in Nutrients \ {"fiber"} : aggResult.rangeValid[f]

FoldOps == {"aggregateItems", "aggregateTotals", "inlineDayTotals", "aggregateItemTotals"}

\* C20: every level computes the same fold: on the same values aggregateTotals,
\* aggregateItems, the per-day sums written out in the history and weekly
\* routes and the log page's aggregateItemTotals return identical totals.
C20_SameFold ==
    (aggResult.op \in FoldOps)
        => /\ aggResult.totals = aggregateItems(aggInput)
           /\ aggResult.totals =
                 aggregateTotals([k \in DOMAIN aggInput |-> TotalsOfItem(aggInput[k])])
           /\ aggResult.totals =
                 InlineDayTotals([k \in DOMAIN aggInput |-> RowOfEntryItem(aggInput[k])])
           /\ aggResult.totals = aggregateItemTotals(aggInput)

C20_Witness ==
    /\ aggResult.op = "aggregateItemTotals"
    /\ Len(aggInput) = 3
    /\ aggResult.totals.fat = Range(3, 6, 13)
    /\ aggResult.totals = aggregateItems(aggInput)


\* C23: when the totals of every day satisfy validateTotals, every field of
\* the averages of computeWeeklyAverage has min <= mid <= max and min >= 0:
\* rounding the three means one by one inverts no range.
C23_AveragesKeepRangeOrder ==
    (WeeklyAveraged /\ AllValid(aggInput))
        => \A f \in Nutrients :
              /\ aggResult.averages[f].min <= aggResult.averages[f].mid
              /\ aggResult.averages[f].mid <= aggResult.averages[f].max
              /\ aggResult.averages[f].min >= 0

\* two valid days whose three means of protein all end in .5
C23_Witness ==
    /\ WeeklyAveraged
    /\ Len(aggInput) = 2
    /\ AllValid(aggInput)
    /\ aggInput[1].protein = Range(1, 1, 1)
    /\ aggInput[2].protein = Range(0, 0, 0)
    /\ aggResult.averages.protein = Range(1, 1, 1)
    /\ aggResult.averages.carbs = Range(1, 1, 2)

----------------------------------------------------------------------------
(* Properties of the dashboard routes (DashSpec, Spec) *)

DashAggregated ==
    dashResponse.route \in {"history", "weekly"} /\ dashResponse.status = 200

\* the rows of entries the answered request fetched
FetchedEntries == {e \in entries : e.id \in dashResponse.fetched}

\* the stored items of the fetched entries of one UTC date
RowsOfDate(d) ==
    {r \in entry_items :
        \E e \in FetchedEntries : e.id = r.entry_id /\ IsoDate(e.timestamp) = d}

RECURSIVE SumOverRows(_, _, _)
SumOverRows(S, f, c) ==
    IF S = {} THEN 0
    ELSE LET r == CHOOSE r \in S : TRUE
         IN dbEntryItemToEntryItem(r)[f][c] + SumOverRows(S \ {r}, f, c)

RECURSIVE SumCounts(_)
SumCounts(days) ==
    IF days = <<>> THEN 0 ELSE days[1].entry_count + SumCounts(Tail(days))

\* C12: in every weekly summary the consistency score is
\* round(100 * days_logged / 7), the week's entries fall into at most 7 date
\* buckets, and the score lies between 0 and 100, whatever the offset of the
\* server's time zone.
C12_ScoreAtMost100 ==
    (dashResponse.route = "weekly" /\ dashResponse.status = 200)
        => /\ 14 * dashResponse.consistency_score <= 200 * dashResponse.days_logged + 7
           /\ 200 * dashResponse.days_logged + 7 < 14 * dashResponse.consistency_score + 14
           /\ dashResponse.days_logged = Len(dashResponse.days)
           /\ Len(dashResponse.days) <= 7
           /\ dashResponse.consistency_score >= 0
           /\ dashResponse.consistency_score <= 100

C14_GroupingPartitions ==
    DashAggregated
        => LET days == dashResponse.days
               dates == {IsoDate(e.timestamp) : e \in FetchedEntries}
           IN /\ {days[k].date : k \in DOMAIN days} = dates
              /\ Len(days) = Cardinality(dates)
              /\ SumCounts(days) = Cardinality(FetchedEntries)
              /\ \A k \in DOMAIN days :
                    /\ days[k].entry_count =
                          Cardinality({e \in FetchedEntries :
                                          IsoDate(e.timestamp) = days[k].date})
                    /\ \A f \in Nutrients, c \in Components :
                          days[k].totals[f][c] =
                              SumOverRows(RowsOfDate(days[k].date), f, c)

C14_Witness ==
    /\ dashResponse.route = "weekly"
    /\ dashResponse.status = 200
    /\ Len(dashResponse.days) >= 2
    /\ \E k \in DOMAIN dashResponse.days :
          /\ dashResponse.days[k].entry_count = 3
          /\ Cardinality(RowsOfDate(dashResponse.days[k].date)) >= 3
          /\ dashResponse.days[k].totals.calories.mid > 0

\* the stored items of the entries of the user whose timestamps fall on the
\* server's local date
StoredToday(user) ==
    {r \in entry_items :
        \E e \in entries :
            /\ e.id = r.entry_id
            /\ e.user_id = user
            /\ LocalDate(e.timestamp) = LocalDate(wallClock)}

\* C19: whatever creations, updates, deletions of entries and deletions of
\* items came before, the totals of a today-dashboard response are the sums
\* over the items stored at that moment for the user's entries of the day.
C19_TotalsFromStoredItems ==
    (dashResponse.route = "today" /\ dashResponse.status = 200)
        => \A f \in Nutrients, c \in Components :
              dashResponse.totals[f][c] =
                  SumOverRows(StoredToday(dashResponse.user), f, c)

\* a response after items were deleted or replaced, others being stored
C19_Witness ==
    /\ dashResponse.route = "today"
    /\ dashResponse.status = 200
    /\ dashResponse.entry_count >= 1
    /\ dashResponse.totals.calories.mid > 0
    /\ Cardinality(entry_items) < nextItemId - 1


\* C30: in a today-dashboard response every entry aggregated has a timestamp
\* whose calendar date (in the server's time zone) is the date reported, and
\* every entry of the user with that calendar date is among those aggregated,
\* whatever the offset of the server's time zone.
C30_TodayDateIsTheEntriesDate ==
    (dashResponse.route = "today" /\ dashResponse.status = 200)
        => /\ \A k \in DOMAIN dashResponse.entries :
                 LocalDate(dashResponse.entries[k].timestamp) = dashResponse.date
           /\ \A e \in entries :
                 (e.user_id = dashResponse.user
                     /\ LocalDate(e.timestamp) = dashResponse.date)
                     => \E k \in DOMAIN dashResponse.entries :
                           dashResponse.entries[k].id = e.id

\* the same with the date of the server's local day in place of the date
\* string of the response
TodayEntriesAreOfTheLocalDay ==
    (dashResponse.route = "today" /\ dashResponse.status = 200)
        => /\ \A k \in DOMAIN dashResponse.entries :
                 LocalDate(dashResponse.entries[k].timestamp) = LocalDate(wallClock)
           /\ \A e \in entries :
                 (e.user_id = dashResponse.user
                     /\ LocalDate(e.timestamp) = LocalDate(wallClock))
                     => \E k \in DOMAIN dashResponse.entries :
                           dashResponse.entries[k].id = e.id


----------------------------------------------------------------------------
(* Properties of single requests to the entry routes (Spec) *)

Failed(status) == status >= 400

\* C24: an update answered with an error leaves the stored entries and items
\* as they were before the request: the raw text, the timestamp and the items
\* of the entry are unchanged.
C24_FailedUpdateChangesNothing ==
    [][(UpdateEntry /\ Failed(httpResponse'.status))
          => (entries' = entries /\ entry_items' = entry_items)]_vars

\* C26: a create answered with anything but 201 stores no new entry and no new
\* item; one answered with 201 stores one new entry and, for it, exactly as
\* many items as the response of the validator returned.
C26_CreateLeavesNoPartialState ==
    [][CreateEntry
          => IF httpResponse'.status # 201
             THEN entries' = entries /\ entry_items' = entry_items
             ELSE /\ \E e \in entries' \ entries :
                        /\ entries' = entries \cup {e}
                        /\ entry_items' \ entry_items
                              = {r \in entry_items' : r.entry_id = e.id}
                        /\ Cardinality(entry_items' \ entry_items)
                              = Len(httpResponse'.items)
                  /\ entry_items \subseteq entry_items']_vars


----------------------------------------------------------------------------
(* GET /api/entries and the log page that pages through it *)

MaxListed == 45
MaxObserved == 2
MaxLoads == 3
PAGE_SIZE == 20

\* a query parameter holding digits, or absent
NoParam == [given |-> FALSE, n |-> 0]
Param(n) == [given |-> TRUE, n |-> n]

Query(from, to, limit, offset) ==
    [from |-> from, to |-> to, limit |-> limit, offset |-> offset]

\* Math.min(parseInt(searchParams.get('limit') || '100', 10), 100)
LimitOf(q) ==
    LET asked == IF q.limit.given THEN q.limit.n ELSE 100
    IN IF asked < 100 THEN asked ELSE 100

\* parseInt(searchParams.get('offset') || '0', 10)
OffsetOf(q) == IF q.offset.given THEN q.offset.n ELSE 0

\* the rows the filters of the query match
Matching(user, q) ==
    {e \in entries :
        /\ e.user_id = user
        /\ q.from.given => e.timestamp >= q.from.at
        /\ q.to.given => e.timestamp <= q.to.at}

\* .range(offset, offset + limit - 1) of the ordered rows
RangeOf(sorted, offset, limit) ==
    SubSeq(sorted, offset + 1,
           IF offset + limit < Len(sorted) THEN offset + limit ELSE Len(sorted))

ListJson(status, error, es, total, has_more, user, q) ==
    [route |-> "entries", status |-> status, error |-> error, entries |-> es,
     total |-> total, has_more |-> has_more, user |-> user, query |-> q]
ListError(user, q) == ListJson(500, "internal_error", <<>>, 0, FALSE, user, q)

ListFaults == {"none", "entries.select", "entry_items.select"}

\* entriesWithItems
EntriesWithItems(rows, allItems) ==
    [k \in DOMAIN rows |->
        [id |-> rows[k].id, user_id |-> rows[k].user_id, raw_text |-> rows[k].raw_text,
         timestamp |-> rows[k].timestamp,
         items |-> MapToEntryItems(ItemsOfEntry(allItems, rows[k].id))]]

\* rows and count are what the first select returned, allItems the second
getEntries(user, q, rows, count, allItems, fault) ==
    IF (q.from.given /\ ~q.from.valid) \/ (q.to.given /\ ~q.to.valid)
    THEN ListError(user, q)
    ELSE IF fault = "entries.select" THEN ListError(user, q)
    ELSE IF Len(rows) = 0 THEN ListJson(200, "", <<>>, 0, FALSE, user, q)
    ELSE IF fault = "entry_items.select" THEN ListError(user, q)
    ELSE ListJson(200, "", EntriesWithItems(rows, allItems), count,
                  OffsetOf(q) + Len(rows) < count, user, q)

\* api.entries.list({ limit, offset }): a parameter that is 0 is not sent
ListParams(limit, offset) ==
    Query(NoTimestamp, NoTimestamp,
          IF limit = 0 THEN NoParam ELSE Param(limit),
          IF offset = 0 THEN NoParam ELSE Param(offset))

\* the user logged in on the log page
PageUser == "u1"

\* loadData(offset, append), data being the answer to api.entries.list
loadData(page, append, data) ==
    IF data.status # 200
    THEN [page EXCEPT !.error = TRUE, !.isLoading = FALSE, !.isLoadingMore = FALSE]
    ELSE [page EXCEPT !.entries = IF append THEN @ \o data.entries ELSE data.entries,
                      !.hasMore = data.has_more,
                      !.total = data.total,
                      !.error = FALSE,
                      !.isLoading = FALSE,
                      !.isLoadingMore = FALSE]

\* the offset a callback reading the page's own list would ask for
LoadMoreOffset_Loaded(page, observed) == Len(page.entries)

\* the offset the IntersectionObserver callback asks for: inside the callback
\* `entries` is its parameter, the list of IntersectionObserverEntry records
LoadMoreOffset(page, observed) == observed

----------------------------------------------------------------------------
(* The list route and the log page over a table already written *)

ListedEntry(k) ==
    [id |-> k, user_id |-> IF k % 7 = 0 THEN "u2" ELSE "u1",
     raw_text |-> "eggs and toast", timestamp |-> 3 * k]

ListedRows(k) ==
    RowSet(InsertedRows(k, IF k % 5 = 0 THEN <<>> ELSE <<ItemEggs>>, k))

\* the numbers of entries written: none, one, around one page of PAGE_SIZE of the
\* page's user, and more than two pages
ListedSizes == {0, 1, 22, 23, 24, MaxListed}

ListFrom == {NoTimestamp, BadTimestamp, At(30)}
ListTo == {NoTimestamp, At(60)}
ListLimits == {NoParam, Param(0), Param(1), Param(PAGE_SIZE), Param(150)}
ListOffsets == {NoParam, Param(1), Param(10), Param(PAGE_SIZE), Param(MaxListed)}

ListInit ==
    /\ OthersIdle
    /\ ValidatorIdle
    /\ AggIdle
    /\ DashIdle
    /\ httpResponse = NoHttpResponse
    /\ nextEntryId = MaxListed + 2
    /\ nextItemId = MaxListed + 2
    /\ \E n \in ListedSizes :
          /\ entries = {ListedEntry(k) : k \in 1..n}
          /\ entry_items = UNION {ListedRows(k) : k \in 1..n}

\* the answer of the list route to one request
ListAnswers(user, q, fault) ==
    LET count == Cardinality(Matching(user, q)) IN
    {getEntries(user, q, RangeOf(s, OffsetOf(q), LimitOf(q)), count, allItems, fault) :
        s \in NewestFirst(Matching(user, q)),
        allItems \in {AscendingById(ItemsIn(Matching(user, q)))}}

\* GET /api/entries, answered once from the idle state
GetEntries ==
    /\ httpResponse = NoHttpResponse
    /\ logPage = InitialPage
    /\ \E user \in Users, from \in ListFrom, to \in ListTo, limit \in ListLimits,
          offset \in ListOffsets, fault \in ListFaults :
          \E answer \in ListAnswers(user, Query(from, to, limit, offset), fault) :
              httpResponse' = answer
    /\ UNCHANGED <<otherVars, validatorVars, aggVars, entries, entry_items, nextEntryId,
                   nextItemId, dashVars>>

Show(page) ==
    /\ logPage' = page
    /\ UNCHANGED <<raceVars, heapVars, validatorVars, aggVars, dbVars, dashVars>>

\* the effect run when the page is mounted: loadData()
LoadPage ==
    /\ httpResponse = NoHttpResponse
    /\ logPage = InitialPage
    /\ \E fault \in ListFaults :
          \E data \in ListAnswers(PageUser, ListParams(PAGE_SIZE, 0), fault) :
              Show(loadData(logPage, FALSE, data))

\* the button shown with an error: loadData()
Retry ==
    /\ ~logPage.isLoading /\ logPage.error
    /\ \E fault \in ListFaults :
          \E data \in ListAnswers(PageUser, ListParams(PAGE_SIZE, 0), fault) :
              Show(loadData([logPage EXCEPT !.isLoading = TRUE], FALSE, data))

\* the IntersectionObserver callback, handed `observed` records of which the
\* first says the sentinel is in view; the sentinel is rendered below a list
\* that is not empty while hasMore is set and no error is shown
LoadMore ==
    /\ ~logPage.error /\ Len(logPage.entries) > 0
    /\ logPage.hasMore /\ ~logPage.isLoadingMore /\ ~logPage.isLoading
    /\ Len(logPage.entries) < MaxLoads * PAGE_SIZE
    /\ \E observed \in 1..MaxObserved, fault \in ListFaults :
          \E data \in ListAnswers(PageUser,
                                  ListParams(PAGE_SIZE, LoadMoreOffset(logPage, observed)),
                                  fault) :
              Show(loadData(logPage, TRUE, data))

ListNext == GetEntries \/ LoadPage \/ Retry \/ LoadMore

ListSpec == ListInit /\ [][ListNext]_vars

----------------------------------------------------------------------------
(* Properties of the list route and the log page (ListSpec) *)

Listed == httpResponse # NoHttpResponse /\ httpResponse.status = 200

\* C29: the total of a list response is the number of the user's entries the
\* from/to filter matches, whatever limit and offset, and has_more is true
\* exactly when matching entries lie beyond offset + the number returned
C29_TotalAndHasMore ==
    Listed =>
        LET matching == Cardinality(Matching(httpResponse.user, httpResponse.query))
            offset == OffsetOf(httpResponse.query)
        IN /\ httpResponse.total = matching
           /\ httpResponse.has_more <=> (offset + Len(httpResponse.entries) < matching)

\* the same of the responses that return at least one entry
TotalAndHasMoreOfFilledPages ==
    (Listed /\ Len(httpResponse.entries) > 0) =>
        LET matching == Cardinality(Matching(httpResponse.user, httpResponse.query))
            offset == OffsetOf(httpResponse.query)
        IN /\ httpResponse.total = matching
           /\ httpResponse.has_more <=> (offset + Len(httpResponse.entries) < matching)

Loaded == ~logPage.isLoading /\ ~logPage.error

\* the user's entries, newest first
Diary(user) == NewestFirstById({e \in entries : e.user_id = user})

\* C28: after the initial load and any number of load-more events the list
\* shown is the first entries of the user's diary, each once and none skipped
C28_EachEntryOnceNoneSkipped ==
    Loaded =>
        /\ Len(logPage.entries) <= Len(Diary(PageUser))
        /\ \A k \in DOMAIN logPage.entries :
              logPage.entries[k].id = Diary(PageUser)[k].id

\* the initial load alone shows the first page of the diary
FirstPageShown ==
    (Loaded /\ Len(logPage.entries) <= PAGE_SIZE) =>
        \A k \in DOMAIN logPage.entries : logPage.entries[k].id = Diary(PageUser)[k].id


----------------------------------------------------------------------------
(* lib/middleware.ts, and the routes of one entry as they are exported *)

NoHeader == [scheme |-> "", token |-> ""]
Header(scheme, token) == [scheme |-> scheme, token |-> token]

\* Authorization headers: none, another scheme, a token that does not verify,
\* and the tokens of the two users
AuthHeaders ==
    {NoHeader, Header("Basic", "u1"), Header("Bearer", "expired"),
     Header("Bearer", "u1"), Header("Bearer", "u2")}

NoUser == "null"

\* jwt.verify: the payload's sub, or an exception
verifyToken(token) ==
    IF token \in Users THEN [ok |-> TRUE, sub |-> token] ELSE [ok |-> FALSE, sub |-> ""]

getUserFromRequest(header) ==
    IF header.scheme # "Bearer" THEN NoUser
    ELSE IF verifyToken(header.token).ok THEN verifyToken(header.token).sub
    ELSE NoUser

withAuth(header, handler(_)) ==
    IF getUserFromRequest(header) = NoUser
    THEN Outcome(entries, entry_items, nextEntryId, nextItemId,
                 ErrorJson(401, "unauthorized"))
    ELSE handler(getUserFromRequest(header))

GetFaults == {"none", "entries.select", "entry_items.select"}

\* GET /api/entries/:id; items is what the second select returned
getEntry(user, id, items, fault) ==
    LET same(resp) == Outcome(entries, entry_items, nextEntryId, nextItemId, resp)
        owned == {e \in entries : e.id = id /\ e.user_id = user}
    IN
    IF fault = "entries.select" \/ owned = {} THEN same(ErrorJson(404, "not_found"))
    ELSE IF fault = "entry_items.select" THEN same(ErrorJson(500, "internal_error"))
    ELSE same([status |-> 200, error |-> "", items |-> MapToEntryItems(items),
               totals |-> emptyTotals, entry |-> CHOOSE e \in owned : TRUE])

----------------------------------------------------------------------------
(* The routes of one entry behind withAuth, over the entries of two users *)

\* the entries written before: one of u1 and one of u2, of two items each
OwnedDiary == {5, 7}

\* the entry ids asked for: those written, and one of no row
AskedEntries == OwnedDiary \cup {1}

\* the items asked to be deleted: every item written and one of no row with a
\* working database, and the first item of each entry with every failing call
AskedItems ==
    {[itemId |-> i, fault |-> "none"] :
        i \in {1} \cup {r.id : r \in UNION {DiaryRows(k) : k \in OwnedDiary}}}
        \cup {[itemId |-> 2 * k - 1, fault |-> f] : k \in OwnedDiary, f \in DeleteItemFaults}

\* the updates asked for: a plain one, a blank text, an answer of the LLM that
\* is rejected, and every failing database call
AskedUpdates ==
    {Scenario(t, NoTimestamp, Emission("object", <<ItemEggs>>), "none") :
        t \in {"a bowl of soup", "   "}}
        \cup {Scenario("a bowl of soup", NoTimestamp, Emission("object", <<ItemNoName>>),
                       "none")}
        \cup {Scenario("a bowl of soup", NoTimestamp, Emission("object", <<ItemEggs>>), f) :
                 f \in UpdateFaults}

AuthInit ==
    /\ ValidatorIdle
    /\ AggIdle
    /\ DashIdle
    /\ OthersIdle
    /\ httpResponse = NoHttpResponse
    /\ nextEntryId = Len(DiaryInstants) + 1
    /\ nextItemId = 2 * Len(DiaryInstants) + 1
    /\ entries = {DiaryEntry(k) : k \in OwnedDiary}
    /\ entry_items = UNION {DiaryRows(k) : k \in OwnedDiary}

\* the request served last: its route, the user withAuth found, the entry
\* addressed and whether it carried a text
Request(route, header, entryId, raw_text) ==
    [route |-> route, user |-> getUserFromRequest(header), entryId |-> entryId,
     blank |-> Trim(raw_text) = "", pc |-> "done"]

Serve(request, o) ==
    /\ entries' = o.entries
    /\ entry_items' = o.entry_items
    /\ nextEntryId' = o.nextEntryId
    /\ nextItemId' = o.nextItemId
    /\ httpResponse' = o.response
    /\ requests' = <<request>>
    /\ UNCHANGED <<pageVars, heapVars, validatorVars, aggVars, dashVars>>

\* export const GET = withAuth(getEntry)
RouteGET ==
    \E header \in AuthHeaders, id \in AskedEntries, fault \in GetFaults :
        \E items \in FetchOrders({r \in entry_items : r.entry_id = id}) :
            Serve(Request("GET", header, id, ""),
                  withAuth(header, LAMBDA user : getEntry(user, id, items, fault)))

\* export const PUT = withAuth(updateEntry)
RoutePUT ==
    /\ nextItemId < 2 * Len(DiaryInstants) + MaxItemRows
    /\ \E header \in AuthHeaders, id \in AskedEntries, r \in AskedUpdates :
          Serve(Request("PUT", header, id, r.raw_text),
                withAuth(header,
                         LAMBDA user : updateEntry(user, id, r.raw_text, r.timestamp,
                                                   ResponseOf(r.emission), r.fault)))

\* export const DELETE = withAuth(deleteEntry)
RouteDELETE ==
    \E header \in AuthHeaders, id \in AskedEntries, fault \in DeleteFaults :
        Serve(Request("DELETE", header, id, ""),
              withAuth(header, LAMBDA user : deleteEntry(user, id, fault)))

\* export const DELETE = withAuth(deleteItem)
RouteDELETEItem ==
    \E header \in AuthHeaders, id \in AskedEntries, r \in AskedItems :
        Serve(Request("DELETE item", header, id, ""),
              withAuth(header, LAMBDA user : deleteItem(user, id, r.itemId, r.fault)))

AuthNext == RouteGET \/ RoutePUT \/ RouteDELETE \/ RouteDELETEItem

AuthSpec == AuthInit /\ [][AuthNext]_vars

----------------------------------------------------------------------------
(* Properties of the routes behind withAuth (AuthSpec) *)

\* the entries of other users than `user`, and their items
EntriesOfOthers(es, user) == {e \in es : e.user_id # user}
ItemsOfOthers(es, its, user) ==
    {r \in its : \E e \in EntriesOfOthers(es, user) : e.id = r.entry_id}

\* the request of this step is served without a change to the tables
TablesKept == entries' = entries /\ entry_items' = entry_items

\* the request of this step returns and changes rows of its user only, and is
\* answered 401 with nothing changed when no user is authenticated
OwnRowsOnly(r) ==
    LET user == r.user IN
    IF user = NoUser THEN httpResponse'.status = 401 /\ TablesKept
    ELSE /\ EntriesOfOthers(entries', user) = EntriesOfOthers(entries, user)
         /\ ItemsOfOthers(entries', entry_items', user)
                = ItemsOfOthers(entries, entry_items, user)
         /\ \A k \in DOMAIN httpResponse'.items :
               \E e \in entries' : /\ e.id = httpResponse'.items[k].entry_id
                                    /\ e.user_id = user
         /\ (httpResponse'.status = 200 /\ r.route = "GET")
               => httpResponse'.entry.user_id = user

\* the request of this step addresses an entry of another user
Foreign(r) ==
    /\ r.user # NoUser
    /\ \E e \in entries : e.id = r.entryId /\ e.user_id # r.user

\* C27 as stated: requests touch rows of their own user only, a request at
\* another user's entry is answered 404 and changes nothing, and a request
\* without a valid bearer token is answered 401 and changes nothing
C27_ForeignEntryIs404 ==
    [][requests' # requests =>
          /\ OwnRowsOnly(requests'[1])
          /\ Foreign(requests'[1]) => (httpResponse'.status = 404 /\ TablesKept)]_vars

\* C27, amended: as above, but an update whose raw_text is blank is answered
\* 400 before the owner of the entry is looked at
C27_ForeignEntryIs404Or400 ==
    [][requests' # requests =>
          /\ OwnRowsOnly(requests'[1])
          /\ Foreign(requests'[1]) =>
                /\ TablesKept
                /\ httpResponse'.status =
                      IF requests'[1].route = "PUT" /\ requests'[1].blank
                      THEN 400 ELSE 404]_vars

C27_Witness ==
    /\ requests # <<>>
    /\ Foreign(requests[1])
    /\ requests[1].route = "PUT"
    /\ ~requests[1].blank
    /\ httpResponse.status = 404
    /\ \E r \in entry_items : r.entry_id = requests[1].entryId


----------------------------------------------------------------------------
(* DELETE /api/entries/:id/items/:itemId served concurrently: every awaited
   database call of deleteItem is a step of its own *)

MaxRequests == 2

\* a request being served: where it stands, the count it read, its answer
Serving(user, entryId, itemId) ==
    [route |-> "DELETE item", user |-> user, entryId |-> entryId, itemId |-> itemId,
     pc |-> "entry", count |-> 0, status |-> 0]

Answered(r, status) == [r EXCEPT !.pc = "done", !.status = status]

RaceInit ==
    /\ ValidatorIdle
    /\ AggIdle
    /\ DashIdle
    /\ OthersIdle
    /\ httpResponse = NoHttpResponse
    /\ nextEntryId = Len(DiaryInstants) + 1
    /\ nextItemId = 2 * Len(DiaryInstants) + 1
    /\ entries = {DiaryEntry(k) : k \in OwnedDiary}
    /\ entry_items = UNION {DiaryRows(k) : k \in OwnedDiary}

Step(i, r) ==
    /\ requests' = [requests EXCEPT ![i] = r]
    /\ UNCHANGED <<pageVars, heapVars, validatorVars, aggVars, nextEntryId, nextItemId,
                   httpResponse, dashVars>>

\* a request arrives while others are being served
ReceiveDeleteItem ==
    /\ Len(requests) < MaxRequests
    /\ \E user \in Users, entryId \in OwnedDiary, r \in entry_items :
          requests' = Append(requests, Serving(user, entryId, r.id))
    /\ UNCHANGED <<pageVars, heapVars, validatorVars, aggVars, dbVars, dashVars>>

\* the select that verifies entry ownership
VerifyEntry(i) ==
    /\ requests[i].pc = "entry"
    /\ Step(i, IF \E e \in entries : /\ e.id = requests[i].entryId
                                     /\ e.user_id = requests[i].user
               THEN [requests[i] EXCEPT !.pc = "item"]
               ELSE Answered(requests[i], 404))
    /\ UNCHANGED <<entries, entry_items>>

\* the select that verifies the item belongs to the entry
VerifyItem(i) ==
    /\ requests[i].pc = "item"
    /\ Step(i, IF \E r \in entry_items : /\ r.id = requests[i].itemId
                                         /\ r.entry_id = requests[i].entryId
               THEN [requests[i] EXCEPT !.pc = "count"]
               ELSE Answered(requests[i], 404))
    /\ UNCHANGED <<entries, entry_items>>

\* the select that counts the items of the entry
CountItems(i) ==
    /\ requests[i].pc = "count"
    /\ Step(i, [requests[i] EXCEPT
                   !.pc = "delete",
                   !.count = Cardinality({r \in entry_items :
                                             r.entry_id = requests[i].entryId})])
    /\ UNCHANGED <<entries, entry_items>>

\* the delete of the entry (count <= 1) or of the item, and the answer
DeleteRows(i) ==
    /\ requests[i].pc = "delete"
    /\ Step(i, Answered(requests[i], 204))
    /\ IF requests[i].count <= 1
       THEN /\ entries' = {e \in entries : e.id # requests[i].entryId}
            /\ entry_items' = {r \in entry_items : r.entry_id # requests[i].entryId}
       ELSE /\ entries' = entries
            /\ entry_items' = {r \in entry_items : r.id # requests[i].itemId}

RaceNext ==
    \/ ReceiveDeleteItem
    \/ \E i \in DOMAIN requests : VerifyEntry(i)
    \/ \E i \in DOMAIN requests : VerifyItem(i)
    \/ \E i \in DOMAIN requests : CountItems(i)
    \/ \E i \in DOMAIN requests : DeleteRows(i)

RaceSpec == RaceInit /\ [][RaceNext]_vars

----------------------------------------------------------------------------
(* Properties of concurrent deleteItem requests (RaceSpec) *)

AllAnswered == \A i \in DOMAIN requests : requests[i].pc = "done"

\* C25: whatever the interleaving of the deleteItem requests, once they are
\* answered no entry is stored without an item
C25_NoEntryLeftWithoutItems ==
    AllAnswered => \A e \in entries : \E r \in entry_items : r.entry_id = e.id

\* a request served alone, with no other request received before it is
\* answered, leaves no entry without an item
ServedAloneLeavesNoEmptyEntry ==
    (Len(requests) = 1 /\ AllAnswered) =>
        \A e \in entries : \E r \in entry_items : r.entry_id = e.id


----------------------------------------------------------------------------
(* lib/aggregation.ts on a heap: every object literal allocates an object, a
   field of an object holds a number, a string or the address of an object *)

MaxHeapItems == 2
MaxCalls == 2

NutrientOrder == <<"calories", "protein", "carbs", "fat", "fiber">>

\* what an allocating expression gives: the heap after it and the address
Alloc(h, o) == [heap |-> Append(h, o), ref |-> Len(h) + 1]

RangeOn(r) == [kind |-> "range", min |-> r.min, mid |-> r.mid, max |-> r.max]

TotalsOn(calories, protein, carbs, fat, fiber) ==
    [kind |-> "totals", calories |-> calories, protein |-> protein, carbs |-> carbs,
     fat |-> fat, fiber |-> fiber]

\* the plain values of a totals or item object
ValuesOf(h, a) ==
    [f \in Nutrients |-> Range(h[h[a][f]].min, h[h[a][f]].mid, h[h[a][f]].max)]

\* emptyTotals returning one object kept from its first call
emptyTotalsOn_Cached(h) ==
    LET kept == {a \in DOMAIN h : h[a].kind = "totals" /\ ValuesOf(h, a) = emptyTotals}
        n == Len(h)
    IN IF kept # {} THEN [heap |-> h, ref |-> CHOOSE a \in kept : \A b \in kept : a <= b]
       ELSE Alloc(h \o [j \in 1..5 |-> RangeOn(Range(0, 0, 0))],
                  TotalsOn(n + 1, n + 2, n + 3, n + 4, n + 5))

emptyTotalsOn(h) ==
    LET n == Len(h) IN
    Alloc(h \o [j \in 1..5 |-> RangeOn(Range(0, 0, 0))],
          TotalsOn(n + 1, n + 2, n + 3, n + 4, n + 5))

addRangesOn(h, a, b) ==
    Alloc(h, [kind |-> "range", min |-> h[a].min + h[b].min,
              mid |-> h[a].mid + h[b].mid, max |-> h[a].max + h[b].max])

\* the reducer of aggregateItems and of aggregateTotals
AddNutrientsOn(h, totals, item) ==
    LET calories == addRangesOn(h, h[totals].calories, h[item].calories)
        protein == addRangesOn(calories.heap, h[totals].protein, h[item].protein)
        carbs == addRangesOn(protein.heap, h[totals].carbs, h[item].carbs)
        fat == addRangesOn(carbs.heap, h[totals].fat, h[item].fat)
        fiber == addRangesOn(fat.heap, h[totals].fiber, h[item].fiber)
    IN Alloc(fiber.heap,
             TotalsOn(calories.ref, protein.ref, carbs.ref, fat.ref, fiber.ref))

RECURSIVE ReduceOn(_, _, _, _)
ReduceOn(h, elems, k, acc) ==
    IF k > Len(elems) THEN [heap |-> h, ref |-> acc]
    ELSE LET step == AddNutrientsOn(h, acc, elems[k])
         IN ReduceOn(step.heap, elems, k + 1, step.ref)

aggregateItemsOn(h, items) ==
    IF Len(h[items].elems) = 0 THEN emptyTotalsOn(h)
    ELSE LET initial == emptyTotalsOn(h)
         IN ReduceOn(initial.heap, h[items].elems, 1, initial.ref)

aggregateTotalsOn(h, totalsList) ==
    IF Len(h[totalsList].elems) = 0 THEN emptyTotalsOn(h)
    ELSE LET initial == emptyTotalsOn(h)
         IN ReduceOn(initial.heap, h[totalsList].elems, 1, initial.ref)

aggregateConfidenceOn(h, items) ==
    aggregateConfidence([k \in DOMAIN h[items].elems |->
                            [confidence |-> h[h[items].elems[k]].confidence]])

\* the days as computeWeeklyAverage reads them
DaysOn(h, days) ==
    [k \in DOMAIN h[days].elems |-> [totals |-> ValuesOf(h, h[h[days].elems[k]].totals)]]

MinMaxOn(r) == [kind |-> "minmax", min |-> r.min, max |-> r.max]

computeWeeklyAverageOn(h, days) ==
    LET read == DaysOn(h, days)
        averages ==
            IF Len(read) = 0 THEN emptyTotalsOn(h)
            ELSE LET n == Len(h) IN
                 Alloc(h \o [j \in 1..5 |-> RangeOn(AverageOf(read, NutrientOrder[j]))],
                       TotalsOn(n + 1, n + 2, n + 3, n + 4, n + 5))
        m == Len(averages.heap)
        daily_ranges ==
            Alloc(averages.heap
                      \o [j \in 1..5 |->
                             IF Len(read) = 0 THEN MinMaxOn([min |-> 0, max |-> 0])
                             ELSE MinMaxOn(DailyRangeOf(read, NutrientOrder[j]))],
                  [kind |-> "daily_ranges", calories |-> m + 1, protein |-> m + 2,
                   carbs |-> m + 3, fat |-> m + 4, fiber |-> m + 5])
    IN Alloc(daily_ranges.heap,
             [kind |-> "weekly", averages |-> averages.ref,
              daily_ranges |-> daily_ranges.ref])

validateRangeOn(h, range) ==
    validateRange(Range(h[range].min, h[range].mid, h[range].max))

validateTotalsOn(h, totals) == validateTotals(ValuesOf(h, totals))

\* the addresses an object holds
RefsOf(o) ==
    CASE o.kind \in {"totals", "item", "daily_ranges"} -> {o[f] : f \in Nutrients}
      [] o.kind = "day" -> {o.totals}
      [] o.kind = "array" -> {o.elems[k] : k \in DOMAIN o.elems}
      [] o.kind = "weekly" -> {o.averages, o.daily_ranges}
      [] OTHER -> {}

\* the objects reachable from the addresses S
RECURSIVE Reach(_, _)
Reach(h, S) ==
    LET next == S \cup UNION {RefsOf(h[a]) : a \in S}
    IN IF next = S THEN S ELSE Reach(h, next)

----------------------------------------------------------------------------
(* Calls of the aggregation functions on lists built by their caller *)

HeapItems == {AggItem(1, 2), AggItem(2, 3)}

StoreRanges(h, x) == h \o [j \in 1..5 |-> RangeOn(x[NutrientOrder[j]])]

StoreItem(h, item) ==
    LET n == Len(h) IN
    Alloc(StoreRanges(h, item),
          [kind |-> "item", name |-> item.name, confidence |-> item.confidence,
           calories |-> n + 1, protein |-> n + 2, carbs |-> n + 3, fat |-> n + 4,
           fiber |-> n + 5])

StoreDay(h, date, item) ==
    LET n == Len(h)
        totals == Alloc(StoreRanges(h, item), TotalsOn(n + 1, n + 2, n + 3, n + 4, n + 5))
    IN Alloc(totals.heap,
             [kind |-> "day", date |-> date, totals |-> totals.ref, entry_count |-> 1])

RECURSIVE StoreItems(_, _, _, _)
StoreItems(h, list, k, refs) ==
    IF k > Len(list) THEN [heap |-> h, refs |-> refs]
    ELSE LET stored == StoreItem(h, list[k])
         IN StoreItems(stored.heap, list, k + 1, Append(refs, stored.ref))

RECURSIVE StoreDays(_, _, _, _)
StoreDays(h, list, k, refs) ==
    IF k > Len(list) THEN [heap |-> h, refs |-> refs]
    ELSE LET stored == StoreDay(h, k, list[k])
         IN StoreDays(stored.heap, list, k + 1, Append(refs, stored.ref))

ArrayOn(refs) == [kind |-> "array", elems |-> refs]

\* the items of a list, the list, a day of each item, the list of the days
\* and the list of the days' totals
StoredLists(list) ==
    LET items == StoreItems(<<>>, list, 1, <<>>)
        itemList == Alloc(items.heap, ArrayOn(items.refs))
        days == StoreDays(itemList.heap, list, 1, <<>>)
        dayList == Alloc(days.heap, ArrayOn(days.refs))
    IN Append(dayList.heap,
              ArrayOn([k \in DOMAIN days.refs |-> days.heap[days.refs[k]].totals]))

\* the lists a function taking a list of `kind` objects can be handed
ListsOf(h, kind) ==
    {a \in DOMAIN h :
        /\ h[a].kind = "array"
        /\ \A k \in DOMAIN h[a].elems : h[h[a].elems[k]].kind = kind}

HeapInit ==
    /\ ValidatorIdle
    /\ AggIdle
    /\ DbIdle
    /\ DashIdle
    /\ logPage = InitialPage
    /\ requests = <<>>
    /\ calls = <<>>
    /\ \E list \in SeqsUpTo(HeapItems, MaxHeapItems) : heap = StoredLists(list)

\* a call that returns an object
Returns(fn, arg, out) ==
    /\ Len(calls) < MaxCalls
    /\ heap' = out.heap
    /\ calls' = Append(calls, [fn |-> fn, arg |-> arg, result |-> out.ref, value |-> "",
                               base |-> Len(heap), top |-> Len(out.heap)])
    /\ UNCHANGED <<pageVars, raceVars, validatorVars, aggVars, dbVars, dashVars>>

\* a call that returns a string or a boolean
ReturnsValue(fn, arg, value) ==
    /\ Len(calls) < MaxCalls
    /\ calls' = Append(calls, [fn |-> fn, arg |-> arg, result |-> 0, value |-> value,
                               base |-> Len(heap), top |-> Len(heap)])
    /\ UNCHANGED <<heap, pageVars, raceVars, validatorVars, aggVars, dbVars, dashVars>>

CallEmptyTotals == Returns("emptyTotals", 0, emptyTotalsOn(heap))

CallAggregateItems ==
    \E items \in ListsOf(heap, "item") :
        Returns("aggregateItems", items, aggregateItemsOn(heap, items))

CallAggregateTotals ==
    \E totalsList \in ListsOf(heap, "totals") :
        Returns("aggregateTotals", totalsList, aggregateTotalsOn(heap, totalsList))

CallAggregateConfidence ==
    \E items \in ListsOf(heap, "item") :
        ReturnsValue("aggregateConfidence", items, aggregateConfidenceOn(heap, items))

CallComputeWeeklyAverage ==
    \E days \in ListsOf(heap, "day") :
        Returns("computeWeeklyAverage", days, computeWeeklyAverageOn(heap, days))

\* validateRange is handed the calories range of a totals object
CallValidateRange ==
    \E range \in {heap[a].calories : a \in {b \in DOMAIN heap : heap[b].kind = "totals"}} :
        ReturnsValue("validateRange", range,
                     IF validateRangeOn(heap, range) THEN "true" ELSE "false")

CallValidateTotals ==
    \E totals \in {a \in DOMAIN heap : heap[a].kind = "totals"} :
        ReturnsValue("validateTotals", totals,
                     IF validateTotalsOn(heap, totals) THEN "true" ELSE "false")

HeapNext ==
    \/ CallEmptyTotals
    \/ CallAggregateItems
    \/ CallAggregateTotals
    \/ CallAggregateConfidence
    \/ CallComputeWeeklyAverage
    \/ CallValidateRange
    \/ CallValidateTotals

HeapSpec == HeapInit /\ [][HeapNext]_vars

----------------------------------------------------------------------------
(* Properties of the aggregation functions on the heap (HeapSpec) *)

\* no object that exists is changed by a step
ObjectsKept == \A a \in DOMAIN heap : a \in DOMAIN heap' /\ heap'[a] = heap[a]

\* every object returned is made of objects allocated during its call
ResultsFresh ==
    \A k \in DOMAIN calls :
        calls[k].result # 0 =>
            Reach(heap, {calls[k].result}) \subseteq (calls[k].base + 1)..calls[k].top

\* C22: a call of an aggregation or invariant function changes no object that
\* existed before it, and the object it returns is built of objects allocated
\* during the call, so it shares none with its inputs or another call's result
C22_PureAndFresh == [][ObjectsKept /\ ResultsFresh']_vars

\* the totals returned on the heap hold the values of aggregateItems and
\* aggregateTotals
HeapResultsAgree ==
    \A k \in DOMAIN calls :
        calls[k].fn \in {"aggregateItems", "aggregateTotals"} =>
            ValuesOf(heap, calls[k].result)
                = Reduce([j \in DOMAIN heap[calls[k].arg].elems |->
                             ValuesOf(heap, heap[calls[k].arg].elems[j])],
                         1, emptyTotals)

C22_Witness ==
    /\ Len(calls) = 2
    /\ calls[1].fn = "aggregateItems"
    /\ Len(heap[calls[1].arg].elems) = 0
    /\ calls[2].fn \in {"emptyTotals", "aggregateTotals", "computeWeeklyAverage"}
    /\ calls[2].result # calls[1].result

====
